---- MODULE Spec2Model ----
(***************************************************************************)
(* Model of the schedule-combination engine of matrusp-pirata              *)
(* (src/src/lib/services/database.ts, lines 541-852: the combination       *)
(* service) and of the helpers it uses.                                    *)
(*                                                                         *)
(* Encoding of the TypeScript values:                                      *)
(*   - a time string "HH:MM" is the pair <<HH, MM>> that split(':')        *)
(*     followed by map(Number) produces;                                     *)
(*   - a date string "DD/MM/YYYY" is the tuple <<DD, MM, YYYY>> that       *)
(*     split('/') followed by map(Number) produces; the empty string is    *)
(*     <<>>; a part that is not a number is NaN;                            *)
(*   - a JavaScript array is a sequence, a Set<string> is a set;           *)
(*   - undefined (a missing field) is the record Undefined.                *)
(*                                                                         *)
(* The helpers that are called on their own (conflict tests, selection of  *)
(* the closest combination) take their arguments from args and leave       *)
(* their return value in returned.                                         *)
(*                                                                         *)
(* The lecture search (database.ts, lines 316-403 and 459-470):            *)
(*   - trigramCache, a Map, is the sequence of its entries in insertion    *)
(*     order, which is the order its keys() iterate in;                    *)
(*   - a TrigramScores object is a function from lecture codes to scores;  *)
(*   - the tables db.trigrams and db.lectures hold the index built from    *)
(*     db.json when dbLoaded, and are empty otherwise;                     *)
(*   - each searchLectures call is a record of searches, whose pc is the   *)
(*     await it is suspended at;                                           *)
(*   - cacheLog records what the last step did to the cache: the kind of   *)
(*     operation ("none" when the step did not use the cache), its         *)
(*     trigram and the cache before it; and, in the specification that     *)
(*     sets its field tracking, the keys that have been hit since they     *)
(*     were inserted, before the step and after it.  No action reads it    *)
(*     to decide what the program does.                                    *)
(*                                                                         *)
(* The trigram index (database.ts, lines 53-132 and 190-244) is computed   *)
(* from the lectures of db.json by generateTrigrams, character by          *)
(* character, with logarithms and square roots in thousandths.             *)
(*                                                                         *)
(* The store (state.svelte.ts) is the array of plans and the index of the  *)
(* active one; its derived values are operators on them.  storeLog records *)
(* the last method called and its arguments; no action reads it to decide  *)
(* what the program does.  The search box (src/unnamed/part_003) is its    *)
(* component state, the pending debounce timeout and the searchLectures    *)
(* calls its performSearch calls await.                                    *)
(***************************************************************************)
EXTENDS Integers, Sequences, FiniteSets, TLC

VARIABLES lectures, result, errorLog, groupsOut, pc,
          args, returned,
          dbLoaded, isInitialized, trigramCache, searches, clearing, cacheLog,
          plans, activePlanIndex, nextId, storeLog,
          box, debounceTimer, performs

\* the state of the lecture search: the database tables, dbState, the
\* trigram cache, the searchLectures calls in progress, the clearCache call
\* in progress and a record of the last operation on the cache
searchVars ==
    <<dbLoaded, isInitialized, trigramCache, searches, clearing, cacheLog>>

\* the state of the calls of the combination service and of the helpers
callVars == <<lectures, result, errorLog, groupsOut, pc, args, returned>>

\* the store (AppState): its plans, the index of the active one, the ids
\* generateId has given out and a record of the last call of a method
storeVars == <<plans, activePlanIndex, nextId, storeLog>>

\* the store and the lecture search box: the state of the component, whether
\* its debounce timer is pending, and its performSearch calls in progress
uiVars == <<storeVars, box, debounceTimer, performs>>

vars == <<callVars, searchVars, uiVars>>

-----------------------------------------------------------------------------
(* Bounds of the model *)

\* database.ts:546 sets the cap to 1000.  The code uses it in one comparison
\* only (newCombinations.length >= MAX_COMBINATIONS); the model keeps the
\* comparison and scales the number, so that inputs below, at and above the
\* cap are all enumerated.
MAX_COMBINATIONS == 3

\* most lectures in one input of computeCombinations
MaxLectures == 3

\* most sections (turmas) of one lecture
MaxSections == 4

\* most sections of all lectures of one input together
MaxTotalSections == 5

\* most sections of a lecture whose inclusion flag is unset
MaxUnselectedSections == 1

\* most sections of the lecture given to groupClassroomsBySchedule alone
MaxGroupedSections == 3

\* most lectures of a plan whose combinations findClosestCombination gets
MaxClosestLectures == 2

\* most sections of a lecture of such a plan
MaxClosestSections == 2

\* database.ts:318 sets the capacity of the trigram cache to 64.  The code
\* uses it in one comparison only (trigramCache.size >= MAX_CACHE_SIZE); the
\* model keeps the comparison and scales the number, so that searches fill
\* the cache and evict from it.
MAX_CACHE_SIZE == 2

\* most searchLectures calls in progress at once
MaxSearches == 2

\* most trigrams of one query
MaxQueryTrigrams == 2

\* most schedules in the horario of a section of that lecture
MaxSchedules == 2

-----------------------------------------------------------------------------
(* Values *)

NaN == -1

Undefined == [undefined |-> TRUE]

DayOfWeek == {"seg", "ter", "qua", "qui", "sex", "sab", "dom"}

\* "HH:MM" -> minutes from midnight
parseTime(time) == time[1] * 60 + time[2]

timeRangesOverlap(start1, end1, start2, end2) == start1 < end2 /\ end1 > start2

\* the i-th element of the destructured split, undefined -> NaN
DatePart(dateStr, i) == IF i <= Len(dateStr) THEN dateStr[i] ELSE NaN

\* new Date(year, month - 1, day) as a day ordinal (every month counted with
\* 31 day slots: order-preserving on calendar dates); an Invalid Date is NaN
parseDate(dateStr) ==
    LET day   == DatePart(dateStr, 1)
        month == DatePart(dateStr, 2)
        year  == DatePart(dateStr, 3)
    IN  IF day = NaN \/ month = NaN \/ year = NaN
        THEN NaN
        ELSE (year * 12 + (month - 1)) * 31 + day

\* a variant that also accepts equal dates
DateLessOrEqual(d1, d2) == d1 # NaN /\ d2 # NaN /\ d1 <= d2

\* d1 < d2 on Date objects: a comparison with an Invalid Date is false
DateLess(d1, d2) == d1 # NaN /\ d2 # NaN /\ d1 < d2

dateRangesOverlap(start1, end1, start2, end2) ==
    LET d1Start == parseDate(start1)
        d1End   == parseDate(end1)
        d2Start == parseDate(start2)
        d2End   == parseDate(end2)
    IN  DateLess(d1Start, d2End) /\ DateLess(d2Start, d1End)

\* truthiness of a string: the empty string is falsy
Truthy(str) == Len(str) > 0

classroomsConflict(c1, c2) ==
    IF Len(c1.horario) = 0 \/ Len(c2.horario) = 0
    THEN FALSE
    ELSE IF /\ Truthy(c1.inicio) /\ Truthy(c1.fim)
            /\ Truthy(c2.inicio) /\ Truthy(c2.fim)
            /\ ~dateRangesOverlap(c1.inicio, c1.fim, c2.inicio, c2.fim)
    THEN FALSE
    ELSE \E i \in 1..Len(c1.horario) : \E j \in 1..Len(c2.horario) :
            LET s1 == c1.horario[i]
                s2 == c2.horario[j]
            IN  /\ s1.dia = s2.dia
                /\ timeRangesOverlap(parseTime(s1.inicio), parseTime(s1.fim),
                                     parseTime(s2.inicio), parseTime(s2.fim))

-----------------------------------------------------------------------------
(* Schedule utilities (src/src/lib/utils/schedule.ts) *)

\* a variant that counts touching ranges as overlapping
schedule_timeRangesOverlapClosed(start1, end1, start2, end2) ==
    start1 <= end2 /\ end1 >= start2

\* timeRangesOverlap of utils/schedule.ts
schedule_timeRangesOverlap(start1, end1, start2, end2) ==
    start1 < end2 /\ end1 > start2

schedulesConflict(s1, s2) ==
    IF s1.dia # s2.dia THEN FALSE
    ELSE LET start1 == parseTime(s1.inicio)
             end1   == parseTime(s1.fim)
             start2 == parseTime(s2.inicio)
             end2   == parseTime(s2.fim)
         IN  schedule_timeRangesOverlap(start1, end1, start2, end2)

\* a variant that takes ranges with an unparseable date as overlapping
schedule_dateRangesOverlapFailSafe(start1, end1, start2, end2) ==
    LET d1Start == parseDate(start1)
        d1End   == parseDate(end1)
        d2Start == parseDate(start2)
        d2End   == parseDate(end2)
    IN  IF NaN \in {d1Start, d1End, d2Start, d2End} THEN TRUE
        ELSE d1Start < d2End /\ d1End > d2Start

\* dateRangesOverlap of utils/schedule.ts, with its own parseDate (split,
\* map(Number), new Date): the same steps as parseDate of the service
schedule_dateRangesOverlap(start1, end1, start2, end2) ==
    LET d1Start == parseDate(start1)
        d1End   == parseDate(end1)
        d2Start == parseDate(start2)
        d2End   == parseDate(end2)
    IN  DateLess(d1Start, d2End) /\ DateLess(d2Start, d1End)

\* classroomsConflict of utils/schedule.ts
schedule_classroomsConflict(c1, c2) ==
    IF Len(c1.horario) = 0 \/ Len(c2.horario) = 0
    THEN FALSE
    ELSE IF /\ Truthy(c1.inicio) /\ Truthy(c1.fim)
            /\ Truthy(c2.inicio) /\ Truthy(c2.fim)
            /\ ~schedule_dateRangesOverlap(c1.inicio, c1.fim, c2.inicio, c2.fim)
    THEN FALSE
    ELSE \E i \in 1..Len(c1.horario) : \E j \in 1..Len(c2.horario) :
            schedulesConflict(c1.horario[i], c2.horario[j])

-----------------------------------------------------------------------------
(* Classroom grouping *)

\* a variant that compares the two schedule lists position by position
SameScheduleAsRepresentativeInOrder(group, classroom) ==
    LET representative == group.classrooms[1]
    IN  /\ Len(representative.horario) = Len(classroom.horario)
        /\ \A i \in 1..Len(representative.horario) :
                LET repSchedule   == representative.horario[i]
                    classSchedule == classroom.horario[i]
                IN  /\ repSchedule.dia = classSchedule.dia
                    /\ repSchedule.inicio = classSchedule.inicio
                    /\ repSchedule.fim = classSchedule.fim

\* the callback of groups.find: does the group's representative have the
\* same schedule as the classroom
SameScheduleAsRepresentative(group, classroom) ==
    LET representative == group.classrooms[1]
    IN  /\ Len(representative.horario) = Len(classroom.horario)
        /\ \A i \in 1..Len(representative.horario) :
             \E j \in 1..Len(classroom.horario) :
                LET repSchedule   == representative.horario[i]
                    classSchedule == classroom.horario[j]
                IN  /\ repSchedule.dia = classSchedule.dia
                    /\ repSchedule.inicio = classSchedule.inicio
                    /\ repSchedule.fim = classSchedule.fim

\* groups.find(...): the index of the first matching group, 0 when none
FindExistingGroup(groups, classroom) ==
    LET matching == {g \in 1..Len(groups) :
                        SameScheduleAsRepresentative(groups[g], classroom)}
    IN  IF matching = {} THEN 0
        ELSE CHOOSE g \in matching : \A h \in matching : g <= h

\* a variant that ignores the explicit selection subset
isSelectedAlways(lecture, classroom) == TRUE

isSelected(lecture, classroom) ==
    \/ lecture.selectedClassrooms = {}
    \/ classroom.codigo \in lecture.selectedClassrooms

\* the for loop over lecture.data.turmas, from the k-th classroom on
RECURSIVE GroupLoop(_, _, _)
GroupLoop(lecture, k, groups) ==
    IF k > Len(lecture.data.turmas) THEN groups
    ELSE LET classroom == lecture.data.turmas[k]
         IN  IF ~isSelected(lecture, classroom)
             THEN GroupLoop(lecture, k + 1, groups)
             ELSE IF Len(classroom.horario) = 0
             THEN GroupLoop(lecture, k + 1, groups)
             ELSE LET existingGroup == FindExistingGroup(groups, classroom)
                  IN  IF existingGroup # 0
                      THEN GroupLoop(lecture, k + 1,
                             [groups EXCEPT ![existingGroup].classrooms =
                                                Append(@, classroom)])
                      ELSE GroupLoop(lecture, k + 1,
                             Append(groups, [lecture    |-> lecture,
                                             classrooms |-> <<classroom>>]))

\* reading lecture.data.turmas of a lecture without data raises a TypeError
groupClassroomsBySchedule(lecture) ==
    IF lecture.data = Undefined
    THEN [threw |-> TRUE,  groups |-> <<>>]
    ELSE [threw |-> FALSE, groups |-> GroupLoop(lecture, 1, <<>>)]

-----------------------------------------------------------------------------
(* Combination engine *)

\* a variant that tests the candidate against the last group only
groupConflictsWithLastGroup(group, combination) ==
    LET classroom == group.classrooms[1]
    IN  /\ Len(combination) > 0
        /\ classroomsConflict(classroom,
                              combination[Len(combination)].classrooms[1])

groupConflictsWithCombination(group, combination) ==
    LET classroom == group.classrooms[1]
    IN  \E e \in 1..Len(combination) :
            classroomsConflict(classroom, combination[e].classrooms[1])

\* SelectSeq as Array.filter
selectedLectures(lecs) == SelectSeq(lecs, LAMBDA l : l.selected)

\* the inner for loop over combinations (lines 759-769), from the c-th on
RECURSIVE ExtendWithGroup(_, _, _, _)
ExtendWithGroup(group, combinations, c, newCombinations) ==
    IF c > Len(combinations)
    THEN [newCombinations |-> newCombinations, hitLimit |-> FALSE]
    ELSE IF ~groupConflictsWithCombination(group, combinations[c])
         THEN LET pushed == Append(newCombinations,
                                   Append(combinations[c], group))
              IN  IF Len(pushed) >= MAX_COMBINATIONS
                  THEN [newCombinations |-> pushed, hitLimit |-> TRUE]
                  ELSE ExtendWithGroup(group, combinations, c + 1, pushed)
         ELSE ExtendWithGroup(group, combinations, c + 1, newCombinations)

\* the for loop over classroomGroups (lines 753-773), from the g-th on
RECURSIVE ExtendWithGroups(_, _, _, _)
ExtendWithGroups(classroomGroups, combinations, g, newCombinations) ==
    IF g > Len(classroomGroups)
    THEN [newCombinations |-> newCombinations, hitLimit |-> FALSE]
    ELSE IF Len(combinations) = 0
         THEN ExtendWithGroups(classroomGroups, combinations, g + 1,
                               Append(newCombinations, <<classroomGroups[g]>>))
         ELSE LET r == ExtendWithGroup(classroomGroups[g], combinations, 1,
                                       newCombinations)
              IN  IF r.hitLimit THEN r
                  ELSE ExtendWithGroups(classroomGroups, combinations, g + 1,
                                        r.newCombinations)

\* a variant that takes a lecture without groups as one that cannot be met
SkipLectureNever(classroomGroups) == FALSE

\* line 749: a lecture without classroom groups is skipped
SkipLecture(classroomGroups) == Len(classroomGroups) = 0

\* the for loop over selectedLectures (lines 745-781), from the n-th on
RECURSIVE LectureLoop(_, _, _)
LectureLoop(selected, n, combinations) ==
    IF n > Len(selected)
    THEN [threw |-> FALSE, combinations |-> combinations, hitLimit |-> FALSE]
    ELSE LET grouped == groupClassroomsBySchedule(selected[n])
         IN  IF grouped.threw
             THEN [threw |-> TRUE, combinations |-> <<>>, hitLimit |-> FALSE]
             ELSE IF SkipLecture(grouped.groups)
             THEN LectureLoop(selected, n + 1, combinations)
             ELSE LET r == ExtendWithGroups(grouped.groups, combinations, 1, <<>>)
                  IN  IF Len(r.newCombinations) = 0 \/ r.hitLimit
                      THEN [threw        |-> FALSE,
                            combinations |-> r.newCombinations,
                            hitLimit     |-> r.hitLimit]
                      ELSE LectureLoop(selected, n + 1, r.newCombinations)

RECURSIVE SumLectureCredits(_, _)
SumLectureCredits(groups, k) ==
    IF k > Len(groups) THEN 0
    ELSE groups[k].lecture.data.creditos_aula + SumLectureCredits(groups, k + 1)

\* a variant that adds the class-time credits into the work credits
RECURSIVE SumWorkCreditsFromAula(_, _)
SumWorkCreditsFromAula(groups, k) ==
    IF k > Len(groups) THEN 0
    ELSE groups[k].lecture.data.creditos_aula
            + SumWorkCreditsFromAula(groups, k + 1)

RECURSIVE SumWorkCredits(_, _)
SumWorkCredits(groups, k) ==
    IF k > Len(groups) THEN 0
    ELSE groups[k].lecture.data.creditos_trabalho + SumWorkCredits(groups, k + 1)

\* lines 784-798: the Combination object of a list of groups
ToCombination(groups) ==
    [groups         |-> groups,
     lectureCredits |-> SumLectureCredits(groups, 1),
     workCredits    |-> SumWorkCredits(groups, 1)]

\* the body of the try block (lines 734-800)
TryBlock(lecs) ==
    LET sel == selectedLectures(lecs)
    IN  IF Len(sel) = 0
        THEN [threw |-> FALSE, combinations |-> <<>>, hitLimit |-> FALSE]
        ELSE LET r == LectureLoop(sel, 1, <<>>)
             IN  IF r.threw THEN r
                 ELSE [threw        |-> FALSE,
                       combinations |-> [c \in 1..Len(r.combinations) |->
                                            ToCombination(r.combinations[c])],
                       hitLimit     |-> r.hitLimit]

\* a variant that lets the exception through to the caller
CatchBlockRethrows(r) == [threw |-> TRUE, combinations |-> <<>>, hitLimit |-> FALSE]

\* the catch block (lines 801-804): the value returned for a raised exception
CatchBlock(r) == [threw |-> FALSE, combinations |-> <<>>, hitLimit |-> FALSE]

\* computeCombinations: threw tells whether an exception reaches the caller
computeCombinations(lecs) ==
    LET r == TryBlock(lecs)
    IN  IF r.threw THEN CatchBlock(r) ELSE r

-----------------------------------------------------------------------------
(* Selection of the closest combination *)

\* null
Null == [null |-> TRUE]

\* the inner for loop of getSimilarityScore, from the j-th group of b on
RECURSIVE ScoreInnerLoop(_, _, _, _)
ScoreInnerLoop(groupA, b, j, score) ==
    IF j > Len(b.groups) THEN score
    ELSE LET groupB == b.groups[j]
         IN  IF /\ groupA.lecture.data.codigo = groupB.lecture.data.codigo
                /\ groupA.classrooms[1].codigo = groupB.classrooms[1].codigo
             THEN ScoreInnerLoop(groupA, b, j + 1, score + 1)
             ELSE ScoreInnerLoop(groupA, b, j + 1, score)

\* the outer for loop of getSimilarityScore, from the i-th group of a on
RECURSIVE ScoreOuterLoop(_, _, _, _)
ScoreOuterLoop(a, b, i, score) ==
    IF i > Len(a.groups) THEN score
    ELSE ScoreOuterLoop(a, b, i + 1, ScoreInnerLoop(a.groups[i], b, 1, score))

getSimilarityScore(a, b) == ScoreOuterLoop(a, b, 1, 0)

\* a variant that also lets an equal score replace the best one
IsBetterOrEqual(score, bestScore) == score >= bestScore

\* the test of line 823
IsBetter(score, bestScore) == score > bestScore

\* the for loop of findClosestCombination, from the i-th combination on;
\* indices count from 1, so bestIndex starts at 1 where the code has 0
RECURSIVE BestIndexLoop(_, _, _, _, _)
BestIndexLoop(combinations, previous, i, bestIndex, bestScore) ==
    IF i > Len(combinations) THEN bestIndex
    ELSE LET score == getSimilarityScore(previous, combinations[i])
         IN  IF IsBetter(score, bestScore)
             THEN BestIndexLoop(combinations, previous, i + 1, i, score)
             ELSE BestIndexLoop(combinations, previous, i + 1, bestIndex, bestScore)

\* a variant that returns null when there is no previous combination
findClosestCombinationOrNull(combinations, previous) ==
    IF Len(combinations) = 0 THEN Null
    ELSE IF previous = Null THEN Null
    ELSE combinations[BestIndexLoop(combinations, previous, 1, 1, -1)]

findClosestCombination(combinations, previous) ==
    IF Len(combinations) = 0 THEN Null
    ELSE IF previous = Null THEN combinations[1]
    ELSE combinations[BestIndexLoop(combinations, previous, 1, 1, -1)]

-----------------------------------------------------------------------------
(* Inputs *)

Schedule(dia, inicio, fim) == [dia |-> dia, inicio |-> inicio, fim |-> fim]

\* seg 10:00-12:00, seg 11:00-13:00 (overlaps the others of seg),
\* seg 12:00-14:00 (touches the first), ter 10:00-12:00
Seg10 == Schedule("seg", <<10, 0>>, <<12, 0>>)
Seg11 == Schedule("seg", <<11, 0>>, <<13, 0>>)
Seg12 == Schedule("seg", <<12, 0>>, <<14, 0>>)
Ter10 == Schedule("ter", <<10, 0>>, <<12, 0>>)

ScheduleChoices == {Seg10, Seg11, Seg12, Ter10}

\* two validity periods that do not overlap: 01/03-30/04 and 01/05-30/06
FirstHalf  == [inicio |-> <<1, 3, 2025>>, fim |-> <<30, 4, 2025>>]
SecondHalf == [inicio |-> <<1, 5, 2025>>, fim |-> <<30, 6, 2025>>]

\* a section before it gets its codigo: a horario and a validity period
SectionBody(horario, period) ==
    [horario |-> horario, inicio |-> period.inicio, fim |-> period.fim]

\* the sections the inputs of computeCombinations are made of
CombinationSections ==
    {SectionBody(<<s>>, FirstHalf) : s \in ScheduleChoices}
    \cup {SectionBody(<<Seg10>>, SecondHalf)}

ClassroomCode(k) == <<"T1", "T2", "T3", "T4", "T5", "T6">>[k]

LectureCode(n) == <<"MAC0110", "MAC0121", "MAT0111", "MAT0122", "FIS0101">>[n]

\* (creditos_aula, creditos_trabalho) of the n-th lecture of an input
LectureCredits(n) == <<<<4, 2>>, <<2, 1>>, <<3, 0>>, <<6, 3>>, <<1, 1>>>>[n]

Classroom(body, k) ==
    [codigo  |-> ClassroomCode(k),
     inicio  |-> body.inicio,
     fim     |-> body.fim,
     horario |-> body.horario]

RECURSIVE SumTo(_, _)
SumTo(shape, n) == IF n = 0 THEN 0 ELSE shape[n] + SumTo(shape, n - 1)

\* the numbers of sections of n lectures that have t sections together
Shapes(n, t) ==
    {shape \in [1..n -> 0..MaxSections] : SumTo(shape, n) = t}

\* the n-th lecture: its sections are the n-th slice of bodies
PlanLecture(n, bodies, shape, isOn, chosen, broken) ==
    [data |-> IF n \in broken THEN Undefined
              ELSE [codigo            |-> LectureCode(n),
                    creditos_aula     |-> LectureCredits(n)[1],
                    creditos_trabalho |-> LectureCredits(n)[2],
                    turmas            |->
                        [k \in 1..shape[n] |->
                            Classroom(bodies[SumTo(shape, n - 1) + k], k)]],
     selected           |-> n \in isOn,
     selectedClassrooms |-> chosen]

\* lectures is an input of computeCombinations; only when allowBroken may a
\* lecture lack its data
GivenInput(allowBroken) ==
    \E count \in 0..MaxLectures, total \in 0..MaxTotalSections :
      \E bodies \in [1..total -> CombinationSections],
         shape \in Shapes(count, total) :
        \E isOn \in {on \in SUBSET (1..count) :
                        \A n \in (1..count) \ on :
                            shape[n] <= MaxUnselectedSections},
           broken \in SUBSET {n \in 1..count : allowBroken /\ shape[n] = 0} :
           lectures = [n \in 1..count |->
                          PlanLecture(n, bodies, shape, isOn, {}, broken)]

NoResult == [threw |-> FALSE, combinations |-> <<>>, hitLimit |-> FALSE, none |-> TRUE]

-----------------------------------------------------------------------------
(* Lecture search: the index, the trigram cache, the scoring *)

\* options?.limit ?? 50
DefaultLimit == 50

\* db.lectures in the order of its primary key: the code, the length of the
\* name and the fields the filters read
LectureTable ==
    <<[codigo |-> "MAC0110", nomeLength |-> 23, campus |-> "SP",
       unidade |-> "IME", departamento |-> "MAC",
       periodos |-> <<"matutino">>],
      [codigo |-> "MAC0121", nomeLength |-> 10, campus |-> "SP",
       unidade |-> "IME", departamento |-> "MAC",
       periodos |-> <<"noturno">>],
      [codigo |-> "MAT0111", nomeLength |-> 7, campus |-> "SC",
       unidade |-> "ICMC", departamento |-> "SMA",
       periodos |-> <<"matutino", "vespertino">>]>>

Codes == {LectureTable[n].codigo : n \in 1..Len(LectureTable)}

\* the scores object of a search: every code that has no property yet is 0
NoScores == [code \in Codes |-> 0]

\* db.trigrams once the index is built: one TrigramScores per stored trigram
StoredTrigrams ==
    [trigram \in {"MAC", "ALG", "CAL"} |->
        CASE trigram = "MAC" -> ("MAC0110" :> 2 @@ "MAC0121" :> 2)
          [] trigram = "ALG" -> ("MAC0121" :> 3)
          [] trigram = "CAL" -> ("MAT0111" :> 4)]

\* the trigrams a query may have: the stored ones and one that is not stored
QueryTrigrams == DOMAIN StoredTrigrams \cup {"XYZ"}

\* db.trigrams.get(trigram): undefined when there is no such entry
DbTrigramsGet(loaded, trigram) ==
    IF loaded /\ trigram \in DOMAIN StoredTrigrams
    THEN StoredTrigrams[trigram]
    ELSE Undefined

\* trigramCache.has / trigramCache.get(trigram)
CacheHas(cache, trigram) == \E e \in 1..Len(cache) : cache[e].trigram = trigram

CacheGet(cache, trigram) ==
    cache[CHOOSE e \in 1..Len(cache) : cache[e].trigram = trigram].trigramScores

\* trigramCache.delete(key)
CacheDelete(cache, key) == SelectSeq(cache, LAMBDA entry : entry.trigram # key)

\* trigramCache.set(key, value): a new key goes to the end, an existing key
\* keeps its place
CacheSet(cache, key, value) ==
    IF CacheHas(cache, key)
    THEN [e \in 1..Len(cache) |->
            IF cache[e].trigram = key
            THEN [trigram |-> key, trigramScores |-> value]
            ELSE cache[e]]
    ELSE Append(cache, [trigram |-> key, trigramScores |-> value])

\* a variant that lets the cache grow by one entry before evicting
CacheIsOverfull(cache) == Len(cache) > MAX_CACHE_SIZE

\* trigramCache.size >= MAX_CACHE_SIZE
CacheIsFull(cache) == Len(cache) >= MAX_CACHE_SIZE

\* a variant that takes the key inserted last
LastKey(cache) == cache[Len(cache)].trigram

\* trigramCache.keys().next().value, of a cache that has a key
FirstKey(cache) == cache[1].trigram

\* lines 355-359: the cache with room made for an entry and the entry set;
\* every key is a non-empty string, so firstKey is truthy when there is one
AddToCache(cache, trigram, trigramScores) ==
    LET evicted == IF CacheIsFull(cache) /\ Len(cache) > 0
                   THEN CacheDelete(cache, FirstKey(cache))
                   ELSE cache
    IN  CacheSet(evicted, trigram, trigramScores)

\* lines 363-368: the scores of an entry added to the scores of the search
AddScores(scores, trigramScores) ==
    [code \in Codes |->
        IF code \in DOMAIN trigramScores
        THEN scores[code] + trigramScores[code]
        ELSE scores[code]]

\* the for loop of lines 348-369 from the i-th trigram on, as far as it runs
\* without awaiting: over cache hits, up to the first miss or the end
RECURSIVE LoopOverHits(_, _, _, _, _, _)
LoopOverHits(cache, searchTrigrams, i, scores, matchedCodes, hits) ==
    IF i > Len(searchTrigrams) \/ ~CacheHas(cache, searchTrigrams[i])
    THEN [i |-> i, scores |-> scores, matchedCodes |-> matchedCodes, hits |-> hits]
    ELSE LET trigramScores == CacheGet(cache, searchTrigrams[i])
         IN  LoopOverHits(cache, searchTrigrams, i + 1,
                          AddScores(scores, trigramScores),
                          matchedCodes \cup DOMAIN trigramScores,
                          hits \cup {searchTrigrams[i]})

\* 100 * Math.log(3 + length), rounded, for the name lengths of LectureTable
LogOfNameLength(nomeLength) ==
    CASE nomeLength = 23 -> 326
      [] nomeLength = 10 -> 256
      [] nomeLength = 7  -> 230

\* lines 393-397: the score divided by the logarithm, in thousandths
AdjustedScore(scores, lecture) ==
    (scores[lecture.codigo] * 100000) \div LogOfNameLength(lecture.nomeLength)

\* a variant that reads the whole table
LecturesAll(loaded, matchedCodes) == IF loaded THEN LectureTable ELSE <<>>

\* db.lectures.where('codigo').anyOf(matchedCodes).toArray()
LecturesAnyOf(loaded, matchedCodes) ==
    IF loaded
    THEN SelectSeq(LectureTable, LAMBDA lecture : lecture.codigo \in matchedCodes)
    ELSE <<>>

\* a lecture put into a list sorted by descending score, after the lectures
\* of equal score (Array.prototype.sort is stable)
RECURSIVE InsertByScore(_, _, _)
InsertByScore(sorted, lecture, scores) ==
    IF Len(sorted) = 0 THEN <<lecture>>
    ELSE IF AdjustedScore(scores, Head(sorted)) >= AdjustedScore(scores, lecture)
    THEN <<Head(sorted)>> \o InsertByScore(Tail(sorted), lecture, scores)
    ELSE <<lecture>> \o sorted

\* filtered.sort(...) of line 400
RECURSIVE SortByScore(_, _)
SortByScore(filtered, scores) ==
    IF Len(filtered) = 0 THEN <<>>
    ELSE InsertByScore(SortByScore(SubSeq(filtered, 1, Len(filtered) - 1), scores),
                       filtered[Len(filtered)], scores)

\* the options of a call: campus, unidade and departamento are "" when they
\* are left out (the code tests their truthiness, so that an empty string
\* and a missing option are alike), periodos is empty when left out, limit
\* is a field of the record only when it is given
NoOptions ==
    [campus |-> "", unidade |-> "", departamento |-> "", periodos |-> <<>>]

\* options?.limit ?? 50
LimitOf(options) ==
    IF "limit" \in DOMAIN options THEN options.limit ELSE DefaultLimit

\* the callback of lectures.filter, lines 379-390
PassesFilters(lecture, options) ==
    IF options.campus # "" /\ lecture.campus # options.campus THEN FALSE
    ELSE IF options.unidade # "" /\ lecture.unidade # options.unidade THEN FALSE
    ELSE IF /\ options.departamento # ""
            /\ lecture.departamento # options.departamento THEN FALSE
    ELSE IF Len(options.periodos) > 0
    THEN \E i \in 1..Len(lecture.periodos) :
            \E j \in 1..Len(options.periodos) :
                lecture.periodos[i] = options.periodos[j]
    ELSE TRUE

\* array.slice(0, end): a negative end counts from the end of the array
SliceTo(array, end) ==
    LET len == Len(array)
        to  == IF end < 0 THEN (IF len + end < 0 THEN 0 ELSE len + end)
               ELSE (IF end > len THEN len ELSE end)
    IN  SubSeq(array, 1, to)

\* a variant that cuts the sorted matches to the limit before it filters
RankLecturesThenFilter(loaded, matchedCodes, scores, options) ==
    LET lecturesFound == LecturesAnyOf(loaded, matchedCodes)
        sorted        == SortByScore(lecturesFound, scores)
    IN  SelectSeq(SliceTo(sorted, LimitOf(options)),
                  LAMBDA lecture : PassesFilters(lecture, options))

\* lines 374-402: the lectures read, filtered, sorted and cut to the limit
RankLectures(loaded, matchedCodes, scores, options) ==
    LET lecturesFound == LecturesAnyOf(loaded, matchedCodes)
        filtered      == SelectSeq(lecturesFound,
                                   LAMBDA lecture : PassesFilters(lecture, options))
        sorted        == SortByScore(filtered, scores)
    IN  SliceTo(sorted, LimitOf(options))

\* a searchLectures call that is not running
NoSearch ==
    [pc |-> "idle", searchTrigrams |-> <<>>, options |-> NoOptions, i |-> 0,
     scores |-> NoScores, matchedCodes |-> {}, lectures |-> <<>>]

NoCacheOperation ==
    [kind |-> "none", trigram |-> "", before |-> <<>>, tracking |-> FALSE,
     hitBefore |-> {}, hits |-> {}]

\* no search, no clearCache, the database loaded by the application at start
SearchAtRestTracking(tracking) ==
    /\ dbLoaded = TRUE
    /\ isInitialized = TRUE
    /\ trigramCache = <<>>
    /\ searches = [p \in 1..MaxSearches |-> NoSearch]
    /\ clearing = FALSE
    /\ cacheLog = [NoCacheOperation EXCEPT !.tracking = tracking]

SearchAtRest == SearchAtRestTracking(FALSE)

-----------------------------------------------------------------------------
(* The store: src/src/lib/stores/state.svelte.ts *)
(*                                                                         *)
(* Indices are the numbers the code uses, counted from 0; the i-th         *)
(* element of an array is the element i + 1 of its sequence.  A plan name  *)
(* `Plano ${n}` is <<"Plano", n>>, the name of a copy is the name of its   *)
(* source with "(copia)" appended, any other name is a one-word sequence.  *)

\* most plans the store holds at once
MaxPlans == 3

\* most ids generateId gives out in one run
MaxPlanIds == 4

\* most lectures of a plan
MaxPlanLectures == 2

SCHEDULE_COLORS == <<1, 2, 3, 4, 5, 6, 7, 8>>

createEmptyPlan(id, name) ==
    [id |-> id, name |-> name, lectures |-> <<>>, activeCombinationIndex |-> 0]

\* array[index]: undefined outside the array
ArrayAt(array, index) ==
    IF index >= 0 /\ index < Len(array) THEN array[index + 1] ELSE Undefined

\* array.splice(start, deleteCount, ...items): a negative start counts from
\* the end, a start beyond the end is the end
Splice(array, start, deleteCount, items) ==
    LET len         == Len(array)
        actualStart == IF start < 0
                       THEN (IF len + start < 0 THEN 0 ELSE len + start)
                       ELSE (IF start > len THEN len ELSE start)
        rest        == len - actualStart
        actualCount == IF deleteCount < 0 THEN 0
                       ELSE IF deleteCount > rest THEN rest ELSE deleteCount
    IN  SubSeq(array, 1, actualStart) \o items
            \o SubSeq(array, actualStart + actualCount + 1, len)

\* a variant that compares the new lecture with every section of the
\* existing one, whatever its explicit subset
lecturesAreMutuallyExclusiveOfAllSections(newLecture, existingLecture) ==
    LET existingTurmas == existingLecture.data.turmas
        newTurmas      == newLecture.turmas
    IN  IF Len(existingTurmas) = 0 \/ Len(newTurmas) = 0 THEN FALSE
        ELSE \A i \in 1..Len(existingTurmas), j \in 1..Len(newTurmas) :
                classroomsConflict(existingTurmas[i], newTurmas[j])

\* lines 44-75; the input has its turmas, whose sections have their horario,
\* so that nothing throws
lecturesAreMutuallyExclusive(newLecture, existingLecture) ==
    LET existingTurmas ==
            IF Cardinality(existingLecture.selectedClassrooms) > 0
            THEN SelectSeq(existingLecture.data.turmas,
                           LAMBDA t : t.codigo \in existingLecture.selectedClassrooms)
            ELSE existingLecture.data.turmas
        newTurmas      == newLecture.turmas
    IN  IF Len(existingTurmas) = 0 \/ Len(newTurmas) = 0 THEN FALSE
        ELSE \A i \in 1..Len(existingTurmas), j \in 1..Len(newTurmas) :
                classroomsConflict(existingTurmas[i], newTurmas[j])

\* the derived values of lines 82-109
AppState_activePlan == ArrayAt(plans, activePlanIndex)

\* combinationResult.combinations and activeCombination as they derive
\* from the active plan
CombinationsOfPlan(activePlan) ==
    IF activePlan # Undefined
    THEN computeCombinations(activePlan.lectures).combinations
    ELSE <<>>

ActiveCombinationOf(activePlan) ==
    LET found == ArrayAt(CombinationsOfPlan(activePlan),
                         IF activePlan # Undefined
                         THEN activePlan.activeCombinationIndex
                         ELSE 0)
    IN  IF found = Undefined THEN Null ELSE found

AppState_combinations == CombinationsOfPlan(AppState_activePlan)

AppState_activeCombination == ActiveCombinationOf(AppState_activePlan)

\* getNextColor, lines 176-184
getNextColor ==
    LET usedColors == {AppState_activePlan.lectures[n].color :
                          n \in 1..Len(AppState_activePlan.lectures)}
        RECURSIVE FirstUnusedColor(_)
        FirstUnusedColor(c) ==
            IF c > Len(SCHEDULE_COLORS) THEN SCHEDULE_COLORS[1]
            ELSE IF SCHEDULE_COLORS[c] \notin usedColors THEN SCHEDULE_COLORS[c]
            ELSE FirstUnusedColor(c + 1)
    IN  FirstUnusedColor(1)

\* findIndex / find by code: the position of the lecture, 0 when absent
FindLecture(planLectures, codigo) ==
    IF \E n \in 1..Len(planLectures) : planLectures[n].data.codigo = codigo
    THEN CHOOSE n \in 1..Len(planLectures) :
            /\ planLectures[n].data.codigo = codigo
            /\ \A m \in 1..(n - 1) : planLectures[m].data.codigo # codigo
    ELSE 0

\* the lectures of a plan after the loop that deselects the included ones
\* that exclude the lecture of the given code and data
DeselectExclusive(planLectures, codigo, data) ==
    [n \in 1..Len(planLectures) |->
        IF /\ planLectures[n].selected
           /\ planLectures[n].data.codigo # codigo
           /\ lecturesAreMutuallyExclusive(data, planLectures[n])
        THEN [planLectures[n] EXCEPT !.selected = FALSE]
        ELSE planLectures[n]]

\* a query typed in the box: the number of its characters and the trigrams
\* generateTrigrams gives for it
EmptyQuery == [length |-> 0, searchTrigrams |-> <<>>]

\* the store as constructed, with one empty plan "Plano 1" and no method
\* called yet, and the search box as mounted
UiAtRest ==
    /\ plans = <<createEmptyPlan(1, <<"Plano", 1>>)>>
    /\ activePlanIndex = 0
    /\ nextId = 2
    /\ storeLog = [op |-> "none", arg |-> <<>>]
    /\ box = [query |-> EmptyQuery, results |-> <<>>, isLoading |-> FALSE,
              selectedIndex |-> -1, campus |-> "", unidade |-> "",
              departamento |-> "", periodos |-> <<>>]
    /\ debounceTimer = FALSE
    /\ performs = <<>>

-----------------------------------------------------------------------------
(* The state machine: an input is given, computeCombinations runs on it *)

InitCommon ==
    /\ result = NoResult
    /\ errorLog = 0
    /\ groupsOut = <<>>
    /\ pc = "input"
    /\ args = <<>>
    /\ returned = <<>>
    /\ SearchAtRest
    /\ UiAtRest

\* well-typed inputs: every lecture has its data
Init ==
    /\ GivenInput(FALSE)
    /\ InitCommon

\* a variant that drops the lectures that are not included from the array
\* it was given
ComputeCombinationsInPlace ==
    /\ pc = "input"
    /\ result' = computeCombinations(lectures)
    /\ errorLog' = IF TryBlock(lectures).threw THEN errorLog + 1 ELSE errorLog
    /\ pc' = "done"
    /\ lectures' = selectedLectures(lectures)
    /\ UNCHANGED <<groupsOut, args, returned, searchVars, uiVars>>

\* a call of computeCombinations(lectures); console.error is counted
ComputeCombinations ==
    /\ pc = "input"
    /\ result' = computeCombinations(lectures)
    /\ errorLog' = IF TryBlock(lectures).threw THEN errorLog + 1 ELSE errorLog
    /\ pc' = "done"
    /\ UNCHANGED <<lectures, groupsOut, args, returned, searchVars, uiVars>>

Next == ComputeCombinations

Spec == Init /\ [][Next]_vars

\* inputs in which a lecture may lack its data
InitAny ==
    /\ GivenInput(TRUE)
    /\ InitCommon

SpecAny == InitAny /\ [][Next]_vars

\* a second call of computeCombinations on the array the first call was
\* given; its return value is kept next to the first one
ComputeCombinationsAgain ==
    /\ pc = "done"
    /\ returned' = computeCombinations(lectures)
    /\ errorLog' = IF TryBlock(lectures).threw THEN errorLog + 1 ELSE errorLog
    /\ pc' = "doneAgain"
    /\ UNCHANGED <<lectures, result, groupsOut, args, searchVars, uiVars>>

NextTwice == ComputeCombinations \/ ComputeCombinationsAgain

SpecTwice == Init /\ [][NextTwice]_vars

\* the schedules of the sections given to groupClassroomsBySchedule alone
GroupingSchedules == {Seg10, Seg11, Ter10}

\* the schedule lists of at most MaxSchedules schedules, repeats included
GroupingHorarios ==
    UNION {[1..len -> GroupingSchedules] : len \in 0..MaxSchedules}

\* one lecture whose sections have any of these schedule lists and whose
\* explicit selection subset is any set of its section codes
InitGroup ==
    /\ \E count \in 0..MaxGroupedSections :
         \E horarios \in [1..count -> GroupingHorarios],
            chosen \in SUBSET {ClassroomCode(k) : k \in 1..count} :
            lectures =
              <<[data |-> [codigo            |-> LectureCode(1),
                           creditos_aula     |-> LectureCredits(1)[1],
                           creditos_trabalho |-> LectureCredits(1)[2],
                           turmas            |->
                              [k \in 1..count |->
                                  Classroom(SectionBody(horarios[k], FirstHalf), k)]],
                 selected           |-> TRUE,
                 selectedClassrooms |-> chosen]>>
    /\ InitCommon

\* a call of groupClassroomsBySchedule(lecture)
GroupClassrooms ==
    /\ pc = "input"
    /\ groupsOut' = groupClassroomsBySchedule(lectures[1]).groups
    /\ pc' = "grouped"
    /\ UNCHANGED <<lectures, result, errorLog, args, returned, searchVars, uiVars>>

NextGroup == GroupClassrooms

SpecGroup == InitGroup /\ [][NextGroup]_vars

\* the date ranges of the sections given to classroomsConflict alone:
\* two disjoint ranges, one that starts on the day the first ends, no
\* dates, a missing end, the start "TBD" and an end without its year
Period(inicio, fim) == [inicio |-> inicio, fim |-> fim]

FromAprilEnd == Period(<<30, 4, 2025>>, <<31, 5, 2025>>)

NoDates == Period(<<>>, <<>>)

NoEndDate == Period(<<1, 3, 2025>>, <<>>)

StartTBD == Period(<<NaN>>, <<30, 4, 2025>>)

EndWithoutYear == Period(<<1, 3, 2025>>, <<30, 4>>)

ConflictPeriods ==
    {FirstHalf, SecondHalf, FromAprilEnd, NoDates, NoEndDate, StartTBD, EndWithoutYear}

\* the schedule lists of the sections given to classroomsConflict alone
ConflictHorarios ==
    UNION {[1..len -> ScheduleChoices] : len \in 0..MaxSchedules}

\* two sections with any of these schedule lists and date ranges
InitConflict ==
    /\ \E h1, h2 \in ConflictHorarios, p1, p2 \in ConflictPeriods :
          args = <<Classroom(SectionBody(h1, p1), 1),
                   Classroom(SectionBody(h2, p2), 2)>>
    /\ lectures = <<>>
    /\ result = NoResult
    /\ errorLog = 0
    /\ groupsOut = <<>>
    /\ pc = "input"
    /\ returned = <<>>
    /\ SearchAtRest
    /\ UiAtRest

\* a call of dateRangesOverlap on the date ranges of the two sections
DateRangesOverlap ==
    /\ pc = "input"
    /\ returned' = dateRangesOverlap(args[1].inicio, args[1].fim,
                                     args[2].inicio, args[2].fim)
    /\ pc' = "datesCompared"
    /\ UNCHANGED <<lectures, result, errorLog, groupsOut, args, searchVars, uiVars>>

\* a call of classroomsConflict(c1, c2)
ClassroomsConflict ==
    /\ pc = "input"
    /\ returned' = classroomsConflict(args[1], args[2])
    /\ pc' = "conflictTested"
    /\ UNCHANGED <<lectures, result, errorLog, groupsOut, args, searchVars, uiVars>>

\* a call of classroomsConflict(c1, c2) of utils/schedule.ts
ScheduleClassroomsConflict ==
    /\ pc = "input"
    /\ returned' = schedule_classroomsConflict(args[1], args[2])
    /\ pc' = "scheduleConflictTested"
    /\ UNCHANGED <<lectures, result, errorLog, groupsOut, args, searchVars, uiVars>>

NextConflict ==
    DateRangesOverlap \/ ClassroomsConflict \/ ScheduleClassroomsConflict

SpecConflict == InitConflict /\ [][NextConflict]_vars

\* the clock times of the schedules given to schedulesConflict alone
ScheduleTimes == {<<10, 0>>, <<10, 30>>, <<11, 0>>, <<11, 30>>, <<12, 0>>}

SchedulesGiven ==
    {Schedule(dia, inicio, fim) :
        dia \in {"seg", "ter"}, inicio \in ScheduleTimes, fim \in ScheduleTimes}

InitSchedules ==
    /\ \E s1, s2 \in SchedulesGiven : args = <<s1, s2>>
    /\ lectures = <<>>
    /\ result = NoResult
    /\ errorLog = 0
    /\ groupsOut = <<>>
    /\ pc = "input"
    /\ returned = <<>>
    /\ SearchAtRest
    /\ UiAtRest

\* a call of timeRangesOverlap on the minutes of the two schedules, in
\* both argument orders
TimeRangesOverlap ==
    /\ pc = "input"
    /\ LET start1 == parseTime(args[1].inicio)
           end1   == parseTime(args[1].fim)
           start2 == parseTime(args[2].inicio)
           end2   == parseTime(args[2].fim)
       IN  returned' =
             <<schedule_timeRangesOverlap(start1, end1, start2, end2),
               schedule_timeRangesOverlap(start2, end2, start1, end1)>>
    /\ pc' = "timesCompared"
    /\ UNCHANGED <<lectures, result, errorLog, groupsOut, args, searchVars, uiVars>>

\* a call of schedulesConflict(s1, s2)
SchedulesConflict ==
    /\ pc = "input"
    /\ returned' = schedulesConflict(args[1], args[2])
    /\ pc' = "schedulesTested"
    /\ UNCHANGED <<lectures, result, errorLog, groupsOut, args, searchVars, uiVars>>

NextSchedules == TimeRangesOverlap \/ SchedulesConflict

SpecSchedules == InitSchedules /\ [][NextSchedules]_vars

\* the sections of the plans whose combinations are given to
\* findClosestCombination: three that do not conflict with one another
ClosestSchedules == {Seg10, Seg12, Ter10}

\* a lecture of such a plan: its code and its list of sections
ClosestLecture(n, horarios) ==
    [data |-> [codigo            |-> LectureCode(n),
               creditos_aula     |-> LectureCredits(n)[1],
               creditos_trabalho |-> LectureCredits(n)[2],
               turmas            |->
                  [k \in 1..Len(horarios) |->
                      Classroom(SectionBody(<<horarios[k]>>, FirstHalf), k)]],
     selected           |-> TRUE,
     selectedClassrooms |-> {}]

\* the section lists of one lecture
ClosestSectionLists ==
    UNION {[1..len -> ClosestSchedules] : len \in 1..MaxClosestSections}

\* the plan of count lectures with these section lists
ClosestPlan(count, lists) == [n \in 1..count |-> ClosestLecture(n, lists[n])]

\* the combinations computed for a plan, as a set
CombinationsOf(plan) ==
    LET combinations == computeCombinations(plan).combinations
    IN  {combinations[c] : c \in 1..Len(combinations)}

\* the candidates are the combinations of a plan of up to MaxClosestLectures
\* lectures; previous is null or a combination of such a plan, the same one
\* or another
InitClosest ==
    /\ \E count, previousCount \in 0..MaxClosestLectures :
         \E lists \in [1..count -> ClosestSectionLists],
            previousLists \in [1..previousCount -> ClosestSectionLists] :
           \E previous \in {Null} \cup
                  CombinationsOf(ClosestPlan(previousCount, previousLists)) :
              args = <<computeCombinations(ClosestPlan(count, lists)).combinations,
                       previous>>
    /\ lectures = <<>>
    /\ result = NoResult
    /\ errorLog = 0
    /\ groupsOut = <<>>
    /\ pc = "input"
    /\ returned = <<>>
    /\ SearchAtRest
    /\ UiAtRest

\* a call of findClosestCombination(combinations, previous)
FindClosestCombination ==
    /\ pc = "input"
    /\ returned' = findClosestCombination(args[1], args[2])
    /\ pc' = "closestFound"
    /\ UNCHANGED <<lectures, result, errorLog, groupsOut, args, searchVars, uiVars>>

NextClosest == FindClosestCombination

SpecClosest == InitClosest /\ [][NextClosest]_vars

\* the trigram lists of the queries: generateTrigrams gives no trigram for
\* an empty query only
Queries ==
    UNION {[1..len -> QueryTrigrams] : len \in 0..MaxQueryTrigrams}

\* the queries all of whose trigrams are stored
StoredQueries ==
    UNION {[1..len -> DOMAIN StoredTrigrams] : len \in 0..MaxQueryTrigrams}

\* the step did not use the cache
NotLogged ==
    [NoCacheOperation EXCEPT !.tracking = cacheLog.tracking, !.hits = cacheLog.hits]

\* the keys to remember as hit
Tracked(keys) == IF cacheLog.tracking THEN keys ELSE {}

\* no call of the combination service or of a helper
CallsAtRest ==
    /\ lectures = <<>>
    /\ result = NoResult
    /\ errorLog = 0
    /\ groupsOut = <<>>
    /\ pc = "searching"
    /\ args = <<>>
    /\ returned = <<>>

InitSearch == SearchAtRest /\ CallsAtRest /\ UiAtRest

\* the same, with the hits of the cache remembered
InitSearchAlone == SearchAtRestTracking(TRUE) /\ CallsAtRest /\ UiAtRest

\* the call has returned its list of lectures
Resolved(search, found) ==
    [NoSearch EXCEPT !.pc = "resolved",
                     !.searchTrigrams = search.searchTrigrams,
                     !.options = search.options,
                     !.lectures = found]

\* where the call stands when the loop has run over the cache hits: at the
\* await of line 352, at the return of line 371 or at the await of line 377
AfterLoop(search, r) ==
    IF r.i <= Len(search.searchTrigrams)
    THEN [search EXCEPT !.pc = "awaitTrigram", !.i = r.i, !.scores = r.scores,
                        !.matchedCodes = r.matchedCodes]
    ELSE IF r.matchedCodes = {}
    THEN Resolved(search, <<>>)
    ELSE [search EXCEPT !.pc = "awaitLectures", !.i = r.i, !.scores = r.scores,
                        !.matchedCodes = r.matchedCodes]

\* the call p runs the loop from the i-th trigram on, on the given cache,
\* until it awaits or returns; log is the cache operation done before
RunLoop(p, search, cache, i, log) ==
    LET r == LoopOverHits(cache, search.searchTrigrams, i, search.scores,
                          search.matchedCodes, {})
    IN  /\ searches' = [searches EXCEPT ![p] = AfterLoop(search, r)]
        /\ cacheLog' =
              IF r.hits = {} THEN log
              ELSE IF log.kind = "insert"
              THEN [log EXCEPT !.hits = @ \cup Tracked(r.hits)]
              ELSE [kind      |-> "hit",
                    trigram   |-> search.searchTrigrams[r.i - 1],
                    before    |-> cache,
                    tracking  |-> cacheLog.tracking,
                    hitBefore |-> cacheLog.hits,
                    hits      |-> log.hits \cup Tracked(r.hits)]

\* lines 338-371 of a call whose database is initialized
BeginSearch(p, search) ==
    IF Len(search.searchTrigrams) = 0
    THEN /\ searches' = [searches EXCEPT ![p] = Resolved(search, <<>>)]
         /\ cacheLog' = NotLogged
    ELSE RunLoop(p, search, trigramCache, 1, NotLogged)

\* a call of searchLectures(query, options), up to its first await
SearchLecturesWith(p, queries, choices) ==
    /\ searches[p].pc \in {"idle", "resolved", "rejected"}
    /\ \E query \in queries, options \in choices :
         LET search == [NoSearch EXCEPT !.searchTrigrams = query,
                                        !.options = options]
         IN  IF ~isInitialized
             THEN /\ searches' = [searches EXCEPT
                                     ![p] = [search EXCEPT !.pc = "awaitCount"]]
                  /\ cacheLog' = NotLogged
             ELSE BeginSearch(p, search)
    /\ UNCHANGED <<dbLoaded, isInitialized, trigramCache, clearing>>
    /\ UNCHANGED <<callVars, uiVars>>

\* a call of searchLectures(query) without options
SearchLectures(p, queries) == SearchLecturesWith(p, queries, {NoOptions})

\* initializeDatabase, lines 151-171: db.lectures.count() has answered
InitializeCounted(p) ==
    /\ searches[p].pc = "awaitCount"
    /\ IF dbLoaded
       THEN /\ isInitialized' = TRUE
            /\ searches' = [searches EXCEPT ![p].pc = "awaitInitialized"]
       ELSE /\ searches' = [searches EXCEPT ![p].pc = "awaitFetch"]
            /\ UNCHANGED isInitialized
    /\ cacheLog' = NotLogged
    /\ UNCHANGED <<dbLoaded, trigramCache, clearing>>
    /\ UNCHANGED <<callVars, uiVars>>

\* initializeDatabase, lines 180-270: db.json is fetched, the index is built
\* and the transaction stores the lectures and the trigrams
InitializeStored(p) ==
    /\ searches[p].pc = "awaitFetch"
    /\ dbLoaded' = TRUE
    /\ searches' = [searches EXCEPT ![p].pc = "awaitStored"]
    /\ cacheLog' = NotLogged
    /\ UNCHANGED <<isInitialized, trigramCache, clearing>>
    /\ UNCHANGED <<callVars, uiVars>>

\* initializeDatabase, lines 181-183 and 303-305: the fetch fails, the error
\* is thrown again and rejects the searchLectures call
InitializeFailed(p) ==
    /\ searches[p].pc = "awaitFetch"
    /\ searches' = [searches EXCEPT ![p] = [NoSearch EXCEPT !.pc = "rejected"]]
    /\ cacheLog' = NotLogged
    /\ UNCHANGED <<dbLoaded, isInitialized, trigramCache, clearing>>
    /\ UNCHANGED <<callVars, uiVars>>

\* initializeDatabase, lines 272-302: after the optional fetches
InitializeFinished(p) ==
    /\ searches[p].pc = "awaitStored"
    /\ isInitialized' = TRUE
    /\ searches' = [searches EXCEPT ![p].pc = "awaitInitialized"]
    /\ cacheLog' = NotLogged
    /\ UNCHANGED <<dbLoaded, trigramCache, clearing>>
    /\ UNCHANGED <<callVars, uiVars>>

\* searchLectures resumes after await initializeDatabase() (line 335)
SearchInitialized(p) ==
    /\ searches[p].pc = "awaitInitialized"
    /\ BeginSearch(p, searches[p])
    /\ UNCHANGED <<dbLoaded, isInitialized, trigramCache, clearing>>
    /\ UNCHANGED <<callVars, uiVars>>

\* src/unnamed/part_003, lines 41-47: when the call p settles in this step,
\* the performSearch that awaits it resumes in the same task and writes the
\* results of the box
PerformSearchResumes(p) ==
    IF /\ \E k \in 1..Len(performs) : performs[k] = p
       /\ searches'[p].pc \in {"resolved", "rejected"}
    THEN /\ box' = [box EXCEPT
                      !.results = IF searches'[p].pc = "resolved"
                                  THEN searches'[p].lectures ELSE <<>>,
                      !.isLoading = FALSE]
         /\ performs' = SelectSeq(performs, LAMBDA q : q # p)
    ELSE UNCHANGED <<box, performs>>

\* searchLectures resumes after await db.trigrams.get(trigram) (line 352):
\* the entry, when there is one, is cached and scored, and the loop goes on
TrigramFetched(p) ==
    /\ searches[p].pc = "awaitTrigram"
    /\ LET search        == searches[p]
           trigram       == search.searchTrigrams[search.i]
           trigramScores == DbTrigramsGet(dbLoaded, trigram)
       IN  IF trigramScores # Undefined
           THEN /\ trigramCache' = AddToCache(trigramCache, trigram, trigramScores)
                /\ RunLoop(p,
                           [search EXCEPT
                              !.scores = AddScores(@, trigramScores),
                              !.matchedCodes = @ \cup DOMAIN trigramScores],
                           trigramCache', search.i + 1,
                           [kind      |-> "insert",
                            trigram   |-> trigram,
                            before    |-> trigramCache,
                            tracking  |-> cacheLog.tracking,
                            hitBefore |-> cacheLog.hits,
                            hits      |-> {key \in cacheLog.hits \ {trigram} :
                                              CacheHas(trigramCache', key)}])
           ELSE /\ UNCHANGED trigramCache
                /\ RunLoop(p, search, trigramCache, search.i + 1, NotLogged)
    /\ PerformSearchResumes(p)
    /\ UNCHANGED <<dbLoaded, isInitialized, clearing>>
    /\ UNCHANGED <<callVars, storeVars, debounceTimer>>

\* searchLectures resumes after await lecturesQuery.toArray() (line 377)
\* and returns
LecturesFetched(p) ==
    /\ searches[p].pc = "awaitLectures"
    /\ searches' = [searches EXCEPT ![p] =
            Resolved(searches[p],
                     RankLectures(dbLoaded, searches[p].matchedCodes,
                                  searches[p].scores, searches[p].options))]
    /\ cacheLog' = NotLogged
    /\ PerformSearchResumes(p)
    /\ UNCHANGED <<dbLoaded, isInitialized, trigramCache, clearing>>
    /\ UNCHANGED <<callVars, storeVars, debounceTimer>>

\* a call of clearCache(): its transaction empties the tables (lines 460-467)
ClearCacheTransaction ==
    /\ ~clearing
    /\ dbLoaded' = FALSE
    /\ clearing' = TRUE
    /\ cacheLog' = NotLogged
    /\ UNCHANGED <<isInitialized, trigramCache, searches>>
    /\ UNCHANGED <<callVars, uiVars>>

\* clearCache resumes after its transaction (lines 468-469)
ClearCacheReturn ==
    /\ clearing
    /\ trigramCache' = <<>>
    /\ isInitialized' = FALSE
    /\ clearing' = FALSE
    /\ cacheLog' = [kind |-> "clear", trigram |-> "", before |-> trigramCache,
                    tracking |-> cacheLog.tracking,
                    hitBefore |-> cacheLog.hits, hits |-> {}]
    /\ UNCHANGED <<dbLoaded, searches>>
    /\ UNCHANGED <<callVars, uiVars>>

\* concurrent searches of stored trigrams
NextSearch ==
    \/ \E p \in 1..MaxSearches :
          \/ SearchLectures(p, StoredQueries)
          \/ InitializeCounted(p)
          \/ InitializeStored(p)
          \/ InitializeFailed(p)
          \/ InitializeFinished(p)
          \/ SearchInitialized(p)
          \/ TrigramFetched(p)
          \/ LecturesFetched(p)
    \/ ClearCacheTransaction
    \/ ClearCacheReturn

SpecSearch == InitSearch /\ [][NextSearch]_vars

\* one search at a time, of any trigrams
NextSearchAlone ==
    \/ SearchLectures(1, Queries)
    \/ InitializeCounted(1)
    \/ InitializeStored(1)
    \/ InitializeFailed(1)
    \/ InitializeFinished(1)
    \/ SearchInitialized(1)
    \/ TrigramFetched(1)
    \/ LecturesFetched(1)
    \/ ClearCacheTransaction
    \/ ClearCacheReturn

SpecSearchAlone == InitSearchAlone /\ [][NextSearchAlone]_vars

\* the options of the filtered searches: each filter left out or given, a
\* limit left out (-1 here) or from 0 to less than the number of lectures
OptionChoices ==
    {IF limit < 0 THEN filters
     ELSE [campus       |-> filters.campus,
           unidade      |-> filters.unidade,
           departamento |-> filters.departamento,
           periodos     |-> filters.periodos,
           limit        |-> limit] :
        filters \in [campus       : {"", "SP", "SC"},
                     unidade      : {"", "IME"},
                     departamento : {"", "SMA"},
                     periodos     : {<<>>, <<"vespertino", "noturno">>}],
        limit \in (0 - 1)..(Len(LectureTable) - 1)}

\* one search at a time with options, on a database that stays loaded
NextSearchFiltered ==
    \/ SearchLecturesWith(1, StoredQueries, OptionChoices)
    \/ TrigramFetched(1)
    \/ LecturesFetched(1)

SpecSearchFiltered == InitSearch /\ [][NextSearchFiltered]_vars

-----------------------------------------------------------------------------
(* The store: calls of the methods of AppState *)

\* a LectureData with one section for each schedule given
LectureData(n, horarios) ==
    [codigo            |-> LectureCode(n),
     creditos_aula     |-> LectureCredits(n)[1],
     creditos_trabalho |-> LectureCredits(n)[2],
     turmas            |->
        [k \in 1..Len(horarios) |->
            Classroom(SectionBody(<<horarios[k]>>, FirstHalf), k)]]

\* the lectures the user can add: the only section of the second clashes
\* with the first section of the first and with both sections of the third
StoreCatalogue ==
    {LectureData(1, <<Seg10, Ter10>>), LectureData(2, <<Seg11>>),
     LectureData(3, <<Seg10, Seg12>>)}

\* the names given to addPlan and renamePlan
PlanNames == {<<"Plano", 2>>, <<"Noturno">>}

\* the argument name of addPlan when it is left out
NoName == <<>>

\* nothing but the store and pc is in use
InitStore ==
    /\ lectures = <<>>
    /\ result = NoResult
    /\ errorLog = 0
    /\ groupsOut = <<>>
    /\ pc = "store"
    /\ args = <<>>
    /\ returned = <<>>
    /\ SearchAtRest
    /\ UiAtRest

StoreCall(op, arg) ==
    /\ storeLog' = [op |-> op, arg |-> arg]
    /\ UNCHANGED <<callVars, searchVars, box, debounceTimer, performs>>

\* addPlan(name?), lines 115-132: existingNumbers are the numbers n of the
\* plans named `Plano ${n}`
AddPlan(name) ==
    /\ Len(plans) < MaxPlans
    /\ nextId <= MaxPlanIds
    /\ LET existingNumbers ==
              {plans[k].name[2] : k \in {n \in 1..Len(plans) :
                                            /\ Len(plans[n].name) = 2
                                            /\ plans[n].name[1] = "Plano"}}
           RECURSIVE NextPlanNumber(_)
           NextPlanNumber(planNumber) ==
               IF planNumber \in existingNumbers
               THEN NextPlanNumber(planNumber + 1)
               ELSE planNumber
       IN  plans' = Append(plans,
                           createEmptyPlan(nextId,
                                           IF name = NoName
                                           THEN <<"Plano", NextPlanNumber(1)>>
                                           ELSE name))
    /\ activePlanIndex' = Len(plans') - 1
    /\ nextId' = nextId + 1
    /\ StoreCall("addPlan", <<name>>)

\* a variant that leaves activePlanIndex as it is
RemovePlanKeepingIndex(index) ==
    /\ IF Len(plans) <= 1
       THEN UNCHANGED plans
       ELSE plans' = Splice(plans, index, 1, <<>>)
    /\ UNCHANGED <<activePlanIndex, nextId>>
    /\ StoreCall("removePlan", <<index>>)

\* removePlan(index), lines 134-141
RemovePlan(index) ==
    /\ IF Len(plans) <= 1
       THEN UNCHANGED <<plans, activePlanIndex>>
       ELSE /\ plans' = Splice(plans, index, 1, <<>>)
            /\ activePlanIndex' = IF activePlanIndex >= Len(plans')
                                  THEN Len(plans') - 1
                                  ELSE activePlanIndex
    /\ UNCHANGED nextId
    /\ StoreCall("removePlan", <<index>>)

\* renamePlan(index, name), lines 143-147
RenamePlan(index, name) ==
    /\ IF ArrayAt(plans, index) # Undefined
       THEN plans' = [plans EXCEPT ![index + 1].name = name]
       ELSE UNCHANGED plans
    /\ UNCHANGED <<activePlanIndex, nextId>>
    /\ StoreCall("renamePlan", <<index, name>>)

\* duplicatePlan(index), lines 149-164
DuplicatePlan(index) ==
    /\ Len(plans) < MaxPlans
    /\ nextId <= MaxPlanIds
    /\ LET source == ArrayAt(plans, index)
       IN  IF source = Undefined
           THEN UNCHANGED <<plans, activePlanIndex, nextId>>
           ELSE LET copy == [id       |-> nextId,
                             name     |-> Append(source.name, "(copia)"),
                             lectures |-> source.lectures,
                             activeCombinationIndex |->
                                 source.activeCombinationIndex]
                IN  /\ plans' = Splice(plans, index + 1, 0, <<copy>>)
                    /\ activePlanIndex' = index + 1
                    /\ nextId' = nextId + 1
    /\ StoreCall("duplicatePlan", <<index>>)

\* setActivePlan(index), lines 166-170
SetActivePlan(index) ==
    /\ IF index >= 0 /\ index < Len(plans)
       THEN activePlanIndex' = index
       ELSE UNCHANGED activePlanIndex
    /\ UNCHANGED <<plans, nextId>>
    /\ StoreCall("setActivePlan", <<index>>)

\* the calls of the plan methods; the indices go from below the array to
\* beyond it
NextPlans ==
    \/ \E name \in PlanNames \cup {NoName} : AddPlan(name)
    \/ \E index \in (0 - 2)..MaxPlans :
          \/ RemovePlan(index)
          \/ \E name \in PlanNames : RenamePlan(index, name)
          \/ DuplicatePlan(index)
          \/ SetActivePlan(index)

SpecPlans == InitStore /\ [][NextPlans]_vars

\* the active plan with its lectures replaced
WithLectures(planLectures) ==
    [plans EXCEPT ![activePlanIndex + 1].lectures = planLectures]

\* addLecture(lecture), lines 186-216
AddLecture(lecture) ==
    /\ AppState_activePlan # Undefined =>
          Len(AppState_activePlan.lectures) < MaxPlanLectures
    /\ IF AppState_activePlan = Undefined
       THEN UNCHANGED plans
       ELSE IF FindLecture(AppState_activePlan.lectures, lecture.codigo) > 0
       THEN UNCHANGED plans
       ELSE plans' = WithLectures(
                Append(DeselectExclusive(AppState_activePlan.lectures,
                                         lecture.codigo, lecture),
                       [data               |-> lecture,
                        color              |-> getNextColor,
                        selected           |-> TRUE,
                        selectedClassrooms |-> {}]))
    /\ UNCHANGED <<activePlanIndex, nextId>>
    /\ StoreCall("addLecture", <<lecture.codigo>>)

\* removeLecture(codigo), lines 218-227
RemoveLecture(codigo) ==
    /\ IF AppState_activePlan = Undefined
       THEN UNCHANGED plans
       ELSE LET index == FindLecture(AppState_activePlan.lectures, codigo) - 1
            IN  IF index # 0 - 1
                THEN plans' = WithLectures(
                        Splice(AppState_activePlan.lectures, index, 1, <<>>))
                ELSE UNCHANGED plans
    /\ UNCHANGED <<activePlanIndex, nextId>>
    /\ StoreCall("removeLecture", <<codigo>>)

\* toggleLecture(codigo), lines 229-251
ToggleLecture(codigo) ==
    /\ IF AppState_activePlan = Undefined
       THEN UNCHANGED plans
       ELSE LET planLectures == AppState_activePlan.lectures
                n            == FindLecture(planLectures, codigo)
            IN  IF n = 0 THEN UNCHANGED plans
                ELSE LET newState == ~planLectures[n].selected
                         others   == IF newState
                                     THEN DeselectExclusive(planLectures, codigo,
                                                            planLectures[n].data)
                                     ELSE planLectures
                     IN  plans' = WithLectures(
                                    [others EXCEPT ![n].selected = newState])
    /\ UNCHANGED <<activePlanIndex, nextId>>
    /\ StoreCall("toggleLecture", <<codigo>>)

\* toggleClassroom(lectureCodigo, classroomCodigo), lines 264-277
ToggleClassroom(lectureCodigo, classroomCodigo) ==
    /\ IF AppState_activePlan = Undefined
       THEN UNCHANGED plans
       ELSE LET planLectures == AppState_activePlan.lectures
                n            == FindLecture(planLectures, lectureCodigo)
            IN  IF n = 0 THEN UNCHANGED plans
                ELSE plans' = WithLectures(
                        [planLectures EXCEPT ![n].selectedClassrooms =
                            IF classroomCodigo \in @
                            THEN @ \ {classroomCodigo}
                            ELSE @ \cup {classroomCodigo}])
    /\ UNCHANGED <<activePlanIndex, nextId>>
    /\ StoreCall("toggleClassroom", <<lectureCodigo, classroomCodigo>>)

\* setActiveCombination(index), lines 283-287
SetActiveCombination(index) ==
    /\ IF AppState_activePlan = Undefined
       THEN UNCHANGED plans
       ELSE LET max(a, b) == IF a > b THEN a ELSE b
                min(a, b) == IF a < b THEN a ELSE b
            IN  plans' = [plans EXCEPT
                            ![activePlanIndex + 1].activeCombinationIndex =
                                min(max(0, index),
                                    max(0, Len(AppState_combinations) - 1))]
    /\ UNCHANGED <<activePlanIndex, nextId>>
    /\ StoreCall("setActiveCombination", <<index>>)

\* the calls of the lecture methods, with the codes of the catalogue and
\* of its sections
NextLectures ==
    \/ \E lecture \in StoreCatalogue : AddLecture(lecture)
    \/ \E codigo \in {lecture.codigo : lecture \in StoreCatalogue} :
          \/ RemoveLecture(codigo)
          \/ ToggleLecture(codigo)
          \/ \E classroomCodigo \in {ClassroomCode(1), ClassroomCode(2)} :
                ToggleClassroom(codigo, classroomCodigo)
    \/ \E index \in (0 - 1)..MAX_COMBINATIONS : SetActiveCombination(index)

SpecLectures == InitStore /\ [][NextLectures]_vars

-----------------------------------------------------------------------------
(* The trigram index: database.ts, lines 53-132 and 190-244                *)
(*                                                                         *)
(* A string is the sequence of its characters, each a one-character        *)
(* string; a trigram is such a string too.  Math.log and Math.sqrt are     *)
(* computed in thousandths: a weight w is the integer nearest to 1000 w.   *)

\* normalizeText, lines 59-64: uppercase, for the lowercase letters of the
\* names; the names have no accents for normalize('NFD') and the replace to
\* take away
normalizeText(text) ==
    [k \in 1..Len(text) |->
        CASE text[k] = "a" -> "A" [] text[k] = "e" -> "E"
          [] text[k] = "r" -> "R" [] text[k] = "t" -> "T"
          [] OTHER -> text[k]]

STOPWORDS ==
    {<<"D", "E">>, <<"D", "A">>, <<"D", "O">>, <<"D", "A", "S">>, <<"D", "O", "S">>,
     <<"A">>, <<"E", "M">>, <<"N", "O">>, <<"N", "A">>, <<"N", "O", "S">>, <<"N", "A", "S">>,
     <<"E">>, <<"O">>, <<"A", "O">>, <<"A", "S">>, <<"O", "S">>,
     <<"A", "O", "S">>, <<"P", "A", "R", "A">>, <<"P", "O", "R">>}

\* romanize, lines 67-80: the lookup in its order, and the loops from its
\* k-th entry on
romanize(number) ==
    LET lookup ==
          <<[symbol |-> <<"M">>, value |-> 1000],
            [symbol |-> <<"C", "M">>, value |-> 900],
            [symbol |-> <<"D">>, value |-> 500],
            [symbol |-> <<"C", "D">>, value |-> 400],
            [symbol |-> <<"C">>, value |-> 100],
            [symbol |-> <<"X", "C">>, value |-> 90],
            [symbol |-> <<"L">>, value |-> 50],
            [symbol |-> <<"X", "L">>, value |-> 40],
            [symbol |-> <<"X">>, value |-> 10],
            [symbol |-> <<"I", "X">>, value |-> 9],
            [symbol |-> <<"V">>, value |-> 5],
            [symbol |-> <<"I", "V">>, value |-> 4],
            [symbol |-> <<"I">>, value |-> 1]>>
        RECURSIVE RomanizeFrom(_, _)
        RomanizeFrom(num, k) ==
            IF k > Len(lookup) THEN <<>>
            ELSE IF num >= lookup[k].value
            THEN lookup[k].symbol \o RomanizeFrom(num - lookup[k].value, k)
            ELSE RomanizeFrom(num, k + 1)
    IN  RomanizeFrom(number, 1)

\* generateTrigrams, lines 83-132.  Every character of the names but the
\* space is a word character, and the space is their only white space.
generateTrigrams(string, asAcronym) ==
    LET romanLetters == {"I", "V", "X", "L", "C", "M"}
        whiteSpace   == {" "}
        digitValue   ==
            [c \in {"0", "1", "2", "3", "4", "5", "6", "7", "8", "9"} |->
                CASE c = "0" -> 0 [] c = "1" -> 1 [] c = "2" -> 2 [] c = "3" -> 3
                  [] c = "4" -> 4 [] c = "5" -> 5 [] c = "6" -> 6 [] c = "7" -> 7
                  [] c = "8" -> 8 [] c = "9" -> 9]
        \* the last position of the run of characters of the set that
        \* starts at position k, k - 1 when there is none
        RECURSIVE RunEnd(_, _, _)
        RunEnd(str, k, characters) ==
            IF k <= Len(str) /\ str[k] \in characters
            THEN RunEnd(str, k + 1, characters) ELSE k - 1
        \* str.replace(/(\b[IVXLCM]+)\s+(?=[IVXLCM])/g, '$1'), line 87, from
        \* position k on: a run of Roman letters that starts a word and is
        \* followed by white space and a Roman letter loses the white space
        RECURSIVE CollapseRomanFrom(_, _)
        CollapseRomanFrom(str, k) ==
            IF k > Len(str) THEN <<>>
            ELSE LET runEnd   == RunEnd(str, k, romanLetters)
                     spaceEnd == RunEnd(str, runEnd + 1, whiteSpace)
                 IN  IF /\ (k = 1 \/ str[k - 1] \in whiteSpace)
                        /\ runEnd >= k
                        /\ spaceEnd > runEnd
                        /\ spaceEnd < Len(str)
                        /\ str[spaceEnd + 1] \in romanLetters
                     THEN SubSeq(str, k, runEnd)
                             \o CollapseRomanFrom(str, spaceEnd + 1)
                     ELSE <<str[k]>> \o CollapseRomanFrom(str, k + 1)
        \* str.split(/\s+/), line 89, from position k on, word being the
        \* characters read since the last white space
        RECURSIVE SplitFrom(_, _, _)
        SplitFrom(str, k, word) ==
            IF k > Len(str) THEN <<word>>
            ELSE IF str[k] \in whiteSpace
            THEN <<word>> \o SplitFrom(str, RunEnd(str, k, whiteSpace) + 1, <<>>)
            ELSE SplitFrom(str, k + 1, Append(word, str[k]))
        \* /^\d+$/.test(word), line 92
        IsNumber(word) ==
            Len(word) > 0 /\ \A k \in 1..Len(word) : word[k] \in DOMAIN digitValue
        \* parseInt(word, 10) of a word of digits, line 93
        RECURSIVE ParseInt(_)
        ParseInt(word) ==
            IF Len(word) = 0 THEN 0
            ELSE 10 * ParseInt(SubSeq(word, 1, Len(word) - 1))
                 + digitValue[word[Len(word)]]
        \* the filter of line 97 from the i-th word on, i counted from 1
        RECURSIVE KeptWordsFrom(_, _)
        KeptWordsFrom(words, i) ==
            IF i > Len(words) THEN <<>>
            ELSE IF words[i] # <<>> /\ (i = 1 \/ words[i] \notin STOPWORDS)
            THEN <<words[i]>> \o KeptWordsFrom(words, i + 1)
            ELSE KeptWordsFrom(words, i + 1)
        \* the loop of lines 114-123 over the characters of a word, from j
        \* on, j counted from 0
        RECURSIVE StandardTrigramsFrom(_, _)
        StandardTrigramsFrom(word, j) ==
            IF j >= Len(word) THEN <<>>
            ELSE (IF j < Len(word) - 2
                  THEN <<<<word[j + 1], word[j + 2], word[j + 3]>>>> ELSE <<>>)
                 \o (IF asAcronym /\ Len(word) < 5 /\ j > 0
                     THEN <<<<word[j], word[j + 1], "%">>>> ELSE <<>>)
                 \o StandardTrigramsFrom(word, j + 1)
        \* the loop of lines 99-129 over the words, from the i-th on, i
        \* counted from 0
        RECURSIVE WordTrigramsFrom(_, _)
        WordTrigramsFrom(words, i) ==
            IF i >= Len(words) THEN <<>>
            ELSE LET word == words[i + 1]
                 IN  <<<<word[1], "#">>>>
                     \o (IF i = 0 /\ Len(word) > 2
                         THEN <<<<word[1], word[2], word[3], "!">>>> ELSE <<>>)
                     \o <<Append(word, "$")>>
                     \o StandardTrigramsFrom(word, 0)
                     \o (IF i > 0 THEN <<<<words[i][1], word[1], "%">>>> ELSE <<>>)
                     \o WordTrigramsFrom(words, i + 1)
        collapsed == CollapseRomanFrom(normalizeText(string), 1)
        split     == SplitFrom(collapsed, 1, <<>>)
        numbered  == IF Len(split) > 1 /\ IsNumber(split[Len(split)])
                     THEN [split EXCEPT ![Len(split)] = romanize(ParseInt(@))]
                     ELSE split
    IN  WordTrigramsFrom(KeptWordsFrom(numbered, 1), 0)

LogTable ==
    <<0, 693, 1099, 1386, 1609, 1792, 1946, 2079, 2197, 2303,
      2398, 2485, 2565, 2639, 2708, 2773, 2833, 2890, 2944, 2996,
      3045, 3091, 3135, 3178, 3219, 3258, 3296, 3332, 3367, 3401,
      3434, 3466, 3497, 3526, 3555, 3584, 3611, 3638, 3664, 3689>>

\* 1000 * Math.sqrt(thousandths / 1000): the integer part of the square
\* root, found between low and high
SqrtOfThousandths(thousandths) ==
    LET RECURSIVE SqrtBetween(_, _, _)
        SqrtBetween(n, low, high) ==
            IF low >= high THEN low
            ELSE LET middle == (low + high + 1) \div 2
                 IN  IF middle * middle <= n THEN SqrtBetween(n, middle, high)
                     ELSE SqrtBetween(n, low, middle - 1)
    IN  SqrtBetween(thousandths * 1000, 0, 3000)

\* the number of times the trigram occurs in the list
RECURSIVE CountIn(_, _)
CountIn(trigrams, trigram) ==
    IF Len(trigrams) = 0 THEN 0
    ELSE (IF Head(trigrams) = trigram THEN 1 ELSE 0) + CountIn(Tail(trigrams), trigram)

\* [...nameTrigrams, ...codeTrigrams], lines 214-217
LectureTrigrams(lecture) ==
    generateTrigrams(lecture.nome, FALSE) \o generateTrigrams(lecture.codigo, FALSE)

\* lines 190-244: the entries of db.trigrams built from the lectures of
\* db.json, each a TrigramScores from the codes of the lectures that have
\* the trigram to their weighted scores
BuildTrigramIndex(catalogue) ==
    LET trigramsOf == [n \in 1..Len(catalogue) |-> LectureTrigrams(catalogue[n])]
        trigrams == UNION {{trigramsOf[n][k] : k \in 1..Len(trigramsOf[n])} :
                              n \in 1..Len(catalogue)}
        RECURSIVE TotalFrom(_)
        TotalFrom(n) ==
            IF n > Len(catalogue) THEN 0
            ELSE Len(trigramsOf[n]) + TotalFrom(n + 1)
        trigramCount == TotalFrom(1)
        docsOf(trigram) ==
            {n \in 1..Len(catalogue) : CountIn(trigramsOf[n], trigram) > 0}
        \* Math.sqrt(Math.log(trigramCount / docCount)), line 237
        weight(trigram) ==
            SqrtOfThousandths(LogTable[trigramCount]
                                - LogTable[Cardinality(docsOf(trigram))])
    IN  [trigram \in trigrams |->
            [code \in {catalogue[n].codigo : n \in docsOf(trigram)} |->
                LET n == CHOOSE m \in docsOf(trigram) : catalogue[m].codigo = code
                IN  (weight(trigram)
                        * LogTable[1 + CountIn(trigramsOf[n], trigram)]) \div 1000]]

\* query.trim()
Trim(str) ==
    LET inner == {k \in 1..Len(str) : str[k] # " "}
    IN  IF inner = {} THEN <<>>
        ELSE SubSeq(str, CHOOSE k \in inner : \A m \in inner : k <= m,
                         CHOOSE k \in inner : \A m \in inner : k >= m)

\* searchLectures(query), lines 338-402, of a call without options that runs
\* alone on the database built from the catalogue: the cache and the tables
\* give the entries of the index, the lectures come in the order of their
\* codes, which is the order of the catalogue
searchLecturesIn(catalogue, index, query) ==
    LET normalizedQuery == Trim(normalizeText(query))
        searchTrigrams  == generateTrigrams(normalizedQuery, TRUE)
        \* the sum of lines 348-369 over the trigrams of the query
        RECURSIVE ScoreOf(_, _)
        ScoreOf(remaining, code) ==
            IF Len(remaining) = 0 THEN 0
            ELSE LET trigram == Head(remaining)
                 IN  (IF trigram \in DOMAIN index /\ code \in DOMAIN index[trigram]
                      THEN index[trigram][code] ELSE 0)
                     + ScoreOf(Tail(remaining), code)
        matchedCodes    ==
            UNION {DOMAIN index[searchTrigrams[k]] :
                      k \in {m \in 1..Len(searchTrigrams) :
                                searchTrigrams[m] \in DOMAIN index}}
        filtered        ==
            SelectSeq(catalogue, LAMBDA lecture : lecture.codigo \in matchedCodes)
        \* lines 393-397
        adjusted        ==
            [code \in matchedCodes |->
                LET lecture == catalogue[CHOOSE n \in 1..Len(catalogue) :
                                             catalogue[n].codigo = code]
                IN  (ScoreOf(searchTrigrams, code) * 1000)
                        \div LogTable[3 + Len(lecture.nome)]]
        \* line 400: a lecture put into a list sorted by descending adjusted
        \* score, after the lectures of equal score
        RECURSIVE InsertByAdjusted(_, _)
        InsertByAdjusted(sorted, lecture) ==
            IF Len(sorted) = 0 THEN <<lecture>>
            ELSE IF adjusted[Head(sorted).codigo] >= adjusted[lecture.codigo]
            THEN <<Head(sorted)>> \o InsertByAdjusted(Tail(sorted), lecture)
            ELSE <<lecture>> \o sorted
        RECURSIVE SortByAdjusted(_)
        SortByAdjusted(unsorted) ==
            IF Len(unsorted) = 0 THEN <<>>
            ELSE InsertByAdjusted(
                    SortByAdjusted(SubSeq(unsorted, 1, Len(unsorted) - 1)),
                    unsorted[Len(unsorted)])
    IN  IF normalizedQuery = <<>> \/ matchedCodes = {} THEN <<>>
        ELSE SliceTo(SortByAdjusted(filtered), DefaultLimit)

\* the codes of the lectures of db.json, in ascending order
CatalogueCodes ==
    <<<<"A", "R", "T", "0", "1", "0", "0">>, <<"M", "A", "C", "0", "1", "1", "0">>, <<"M", "A", "T", "0", "1", "1", "1">>>>

\* their names
CatalogueNames ==
    {<<"M", "A", "T", " ", "A">>,
     <<"A">>,
     <<"A", "r", "t", "e", " ", "e", " ", "a">>,
     <<"A", "R", "T", "E">>,
     <<"M", "A", "T", " ", "2">>,
     <<"M", " ", "I", " ", "I">>}

\* db.json holds two lectures
InitRoundTrip ==
    /\ \E first, second \in 1..Len(CatalogueCodes) :
         \E firstName, secondName \in CatalogueNames :
            /\ first < second
            /\ lectures = <<[codigo |-> CatalogueCodes[first], nome |-> firstName],
                            [codigo |-> CatalogueCodes[second], nome |-> secondName]>>
    /\ result = NoResult
    /\ errorLog = 0
    /\ groupsOut = <<>>
    /\ pc = "json"
    /\ args = <<>>
    /\ returned = <<>>
    /\ SearchAtRest
    /\ UiAtRest

\* initializeDatabase builds the index; args[1] is db.trigrams from then on
IndexBuilt ==
    /\ pc = "json"
    /\ args' = <<BuildTrigramIndex(lectures)>>
    /\ pc' = "indexed"
    /\ UNCHANGED <<lectures, result, errorLog, groupsOut, returned,
                   searchVars, uiVars>>

\* searchLectures of the normalized name of the n-th lecture; args[2] is
\* that query
SearchByName(n) ==
    /\ pc = "indexed"
    /\ LET query == normalizeText(lectures[n].nome)
       IN  /\ args' = <<args[1], query, n>>
           /\ returned' = searchLecturesIn(lectures, args[1], query)
    /\ pc' = "nameSearched"
    /\ UNCHANGED <<lectures, result, errorLog, groupsOut, searchVars, uiVars>>

NextRoundTrip ==
    \/ IndexBuilt
    \/ \E n \in 1..2 : SearchByName(n)

SpecRoundTrip == InitRoundTrip /\ [][NextRoundTrip]_vars

-----------------------------------------------------------------------------
(* The search box: src/unnamed/part_003                                    *)
(*                                                                         *)
(* debounceTimer is TRUE while a timeout set by handleInput is pending;    *)
(* clearTimeout of a timeout that has fired does nothing.  performs lists  *)
(* the searchLectures calls awaited by a performSearch, in the order in    *)
(* which they were started.                                                *)

\* the values typed into the box, each with its length and its trigrams:
\* nothing, one character, and three words
BoxInputs ==
    {EmptyQuery,
     [length |-> 1, searchTrigrams |-> <<"XYZ">>],
     [length |-> 3, searchTrigrams |-> <<"MAC">>],
     [length |-> 3, searchTrigrams |-> <<"CAL">>],
     [length |-> 3, searchTrigrams |-> <<"ALG">>]}

\* performSearch(q), lines 25-48, on the box as the handler left it, up to
\* its await; when searchLectures returns without awaiting, performSearch
\* resumes at once.  The call is the first searchLectures call that is not
\* running.
PerformSearch(q, handled) ==
    IF q.length < 2
    THEN /\ box' = [handled EXCEPT !.results = <<>>]
         /\ UNCHANGED <<performs, searchVars>>
    ELSE /\ \E p \in 1..MaxSearches :
            LET IsFree(r) ==
                    /\ searches[r].pc \in {"idle", "resolved", "rejected"}
                    /\ \A k \in 1..Len(performs) : performs[k] # r
                search == [NoSearch EXCEPT
                              !.searchTrigrams = q.searchTrigrams,
                              !.options =
                                  [campus       |-> handled.campus,
                                   unidade      |-> handled.unidade,
                                   departamento |-> handled.departamento,
                                   periodos     |-> handled.periodos,
                                   limit        |-> 20]]
            IN  /\ IsFree(p)
                /\ \A r \in 1..(p - 1) : ~IsFree(r)
                /\ BeginSearch(p, search)
                /\ IF searches'[p].pc = "resolved"
                   THEN /\ box' = [handled EXCEPT
                                     !.results = searches'[p].lectures,
                                     !.isLoading = FALSE]
                        /\ UNCHANGED performs
                   ELSE /\ box' = [handled EXCEPT !.isLoading = TRUE]
                        /\ performs' = Append(performs, p)
         /\ UNCHANGED <<dbLoaded, isInitialized, trigramCache, clearing>>

\* handleInput, lines 51-63
HandleInput(value) ==
    /\ box' = [box EXCEPT !.query = value,
                          !.selectedIndex = -1,
                          !.results = IF value.length >= 2 THEN @ ELSE <<>>]
    /\ debounceTimer' = (value.length >= 2)
    /\ UNCHANGED <<performs, callVars, searchVars, storeVars>>

\* the timeout of line 59 fires: performSearch of the query of that moment
DebounceTimerFired ==
    /\ debounceTimer
    /\ debounceTimer' = FALSE
    /\ PerformSearch(box.query, box)
    /\ UNCHANGED <<callVars, storeVars>>

\* clearSearch, lines 104-108
ClearSearch ==
    /\ box.query # EmptyQuery
    /\ box' = [box EXCEPT !.query = EmptyQuery, !.results = <<>>,
                          !.selectedIndex = -1]
    /\ UNCHANGED <<debounceTimer, performs, callVars, searchVars, storeVars>>

\* the campus filter is set and handleFiltersChange runs, lines 123-127
HandleFiltersChange(campus) ==
    /\ campus # box.campus
    /\ IF box.query.length >= 2
       THEN PerformSearch(box.query, [box EXCEPT !.campus = campus])
       ELSE /\ box' = [box EXCEPT !.campus = campus]
            /\ UNCHANGED <<performs, searchVars>>
    /\ UNCHANGED <<debounceTimer, callVars, storeVars>>

\* the search box on a database that stays loaded; the campus filter is
\* none ("") or one campus
NextBox ==
    \/ \E value \in BoxInputs : HandleInput(value)
    \/ DebounceTimerFired
    \/ ClearSearch
    \/ \E campus \in {"", "SC"} : HandleFiltersChange(campus)
    \/ \E p \in 1..MaxSearches :
          \/ TrigramFetched(p)
          \/ LecturesFetched(p)

SpecBox == InitSearch /\ [][NextBox]_vars

-----------------------------------------------------------------------------
(* What the claims speak of *)

Range(seq) == {seq[i] : i \in 1..Len(seq)}

RemoveAt(seq, n) == SubSeq(seq, 1, n - 1) \o SubSeq(seq, n + 1, Len(seq))

GroupsOf(lecture) == groupClassroomsBySchedule(lecture).groups

\* the included lectures that have at least one group, in input order
Contributing(lecs) ==
    SelectSeq(lecs, LAMBDA l : l.selected /\ Len(GroupsOf(l)) > 0)

\* every choice of one group per lecture of ls
RECURSIVE Selections(_)
Selections(ls) ==
    IF Len(ls) = 0 THEN {<<>>}
    ELSE {Append(s, g) : s \in Selections(SubSeq(ls, 1, Len(ls) - 1)),
                         g \in Range(GroupsOf(ls[Len(ls)]))}

\* no two chosen groups have conflicting first sections
RepresentativesCompatible(sel) ==
    \A i, j \in 1..Len(sel) :
        i < j => ~classroomsConflict(sel[i].classrooms[1], sel[j].classrooms[1])

ConflictFreeSelections(lecs) ==
    IF Len(Contributing(lecs)) = 0 THEN {}
    ELSE {s \in Selections(Contributing(lecs)) : RepresentativesCompatible(s)}

\* the group lists of the returned combinations
Returned == {result.combinations[c].groups : c \in 1..Len(result.combinations)}

RECURSIVE GroupCountProduct(_)
GroupCountProduct(ls) ==
    IF Len(ls) = 0 THEN 1
    ELSE Len(GroupsOf(ls[1])) * GroupCountProduct(Tail(ls))

Done == pc = "done"

-----------------------------------------------------------------------------
(* Claims *)

\* C1: when computeCombinations returns hitLimit = false, the returned
\* combinations are exactly the conflict-free selections of one group per
\* included lecture that has a group (conflict tested on the first sections),
\* each of them once.
C1_ExactlyTheConflictFreeSelections ==
    (Done /\ ~result.hitLimit) =>
        /\ Returned = ConflictFreeSelections(lectures)
        /\ Len(result.combinations) = Cardinality(Returned)

\* C1 witness: two lectures or more contribute, some selections are pruned by
\* a conflict and two survive
C1_Witness ==
    /\ Done /\ ~result.hitLimit
    /\ Len(Contributing(lectures)) >= 2
    /\ Len(result.combinations) = 2
    /\ Cardinality(Selections(Contributing(lectures))) > 2

\* C2: computeCombinations returns at most MAX_COMBINATIONS combinations
C2_AtMostMaxCombinations ==
    Done => Len(result.combinations) <= MAX_COMBINATIONS

\* C3: when the product of the group counts of the included lectures that
\* have groups exceeds MAX_COMBINATIONS, hitLimit is true
C3_ProductOverCapSetsHitLimit ==
    (Done /\ GroupCountProduct(Contributing(lectures)) > MAX_COMBINATIONS)
        => result.hitLimit

\* C4: hitLimit = true only when a conflict-free selection of one group per
\* contributing lecture is missing from the returned combinations
C4_HitLimitOnlyWhenTruncated ==
    (Done /\ result.hitLimit) =>
        \E s \in ConflictFreeSelections(lectures) : s \notin Returned

\* C5: every returned combination has exactly one group for each included
\* lecture that has a group, in input order
C5_OneGroupPerContributingLecture ==
    Done =>
        \A c \in 1..Len(result.combinations) :
            LET groups == result.combinations[c].groups
                contrib == Contributing(lectures)
            IN  /\ Len(groups) = Len(contrib)
                /\ \A k \in 1..Len(groups) :
                      /\ k <= Len(contrib)
                      /\ groups[k] \in Range(GroupsOf(contrib[k]))

\* C6: in a returned combination no section of a group conflicts with a
\* section of another group
C6_NoSectionConflictsAcrossGroups ==
    Done =>
        \A c \in 1..Len(result.combinations) :
            LET groups == result.combinations[c].groups
            IN  \A i, j \in 1..Len(groups) :
                    i # j =>
                        \A a \in Range(groups[i].classrooms),
                           b \in Range(groups[j].classrooms) :
                              ~classroomsConflict(a, b)

\* C7: no exception leaves computeCombinations; when one is raised inside,
\* the call returns no combinations and hitLimit = false
C7_NeverThrows ==
    Done =>
        /\ ~result.threw
        /\ errorLog > 0 => (result.combinations = <<>> /\ ~result.hitLimit)

\* C7 witness: a lecture without data is reached after a lecture that has
\* already given combinations
C7_Witness ==
    /\ Done /\ errorLog = 1
    /\ \E m, n \in 1..Len(lectures) :
          /\ m < n
          /\ lectures[m].selected /\ lectures[m].data # Undefined
          /\ Len(GroupsOf(lectures[m])) > 0
          /\ lectures[n].selected /\ lectures[n].data = Undefined

\* C8: removing a lecture whose inclusion flag is unset, or an included
\* lecture with zero groups, changes neither the combinations nor hitLimit;
\* with no included lecture the result is empty with hitLimit = false
C8_OnlyContributingLecturesMatter ==
    Done =>
        /\ \A n \in 1..Len(lectures) :
              (\/ ~lectures[n].selected
               \/ /\ ~groupClassroomsBySchedule(lectures[n]).threw
                  /\ Len(GroupsOf(lectures[n])) = 0)
              => computeCombinations(RemoveAt(lectures, n)) = result
        /\ (\A n \in 1..Len(lectures) : ~lectures[n].selected)
              => (result.combinations = <<>> /\ ~result.hitLimit)

\* C8 witness: an included lecture with zero groups stands between two
\* lectures that contribute, and combinations are returned
C8_Witness ==
    /\ Done
    /\ Len(result.combinations) > 0
    /\ \E m, n, o \in 1..Len(lectures) :
          /\ m < n /\ n < o
          /\ lectures[n].selected /\ Len(GroupsOf(lectures[n])) = 0
          /\ lectures[m].selected /\ Len(GroupsOf(lectures[m])) > 0
          /\ lectures[o].selected /\ Len(GroupsOf(lectures[o])) > 0

RECURSIVE SeqSum(_)
SeqSum(numbers) ==
    IF Len(numbers) = 0 THEN 0 ELSE numbers[1] + SeqSum(Tail(numbers))

\* C9: lectureCredits is the sum of creditos_aula and workCredits the sum of
\* creditos_trabalho over the lectures of the combination's groups
C9_CreditsAreSums ==
    Done =>
        \A c \in 1..Len(result.combinations) :
            LET comb == result.combinations[c]
            IN  /\ comb.lectureCredits =
                     SeqSum([k \in 1..Len(comb.groups) |->
                                comb.groups[k].lecture.data.creditos_aula])
                /\ comb.workCredits =
                     SeqSum([k \in 1..Len(comb.groups) |->
                                comb.groups[k].lecture.data.creditos_trabalho])

\* C9 witness: lectures with (4,2) and (2,1) credits give a combination
\* with (6,3)
C9_Witness ==
    /\ Done
    /\ \E c \in 1..Len(result.combinations) :
          /\ Len(result.combinations[c].groups) = 2
          /\ result.combinations[c].lectureCredits = 6
          /\ result.combinations[c].workCredits = 3

\* the set of (weekday, start, end) tuples of a section
ScheduleSet(classroom) ==
    {<<classroom.horario[i].dia, classroom.horario[i].inicio,
       classroom.horario[i].fim>> : i \in 1..Len(classroom.horario)}

\* C10: any two sections that groupClassroomsBySchedule puts in one group
\* have the same set of (weekday, start, end) tuples
C10_GroupMembersShareScheduleSet ==
    pc = "grouped" =>
        \A g \in 1..Len(groupsOut) :
            \A a, b \in Range(groupsOut[g].classrooms) :
                ScheduleSet(a) = ScheduleSet(b)

\* the positions, in lecture.data.turmas, of the sections that
\* groupClassroomsBySchedule must place: at least one schedule, and the
\* selection subset is empty or holds the section's code
Eligible(lecture) ==
    {k \in 1..Len(lecture.data.turmas) :
        /\ Len(lecture.data.turmas[k].horario) > 0
        /\ \/ lecture.selectedClassrooms = {}
           \/ lecture.data.turmas[k].codigo \in lecture.selectedClassrooms}

\* the groups that hold the k-th section of the lecture
GroupsHolding(groups, lecture, k) ==
    {g \in 1..Len(groups) :
        \E m \in 1..Len(groups[g].classrooms) :
            groups[g].classrooms[m] = lecture.data.turmas[k]}

\* b lists the schedules of a in another order
IsPermutation(a, b) ==
    /\ Len(a) = Len(b)
    /\ \E p \in [1..Len(a) -> 1..Len(a)] :
          /\ \A i, j \in 1..Len(a) : i # j => p[i] # p[j]
          /\ \A i \in 1..Len(a) : a[i] = b[p[i]]

\* C11: grouping does not depend on the order of a section's schedule list:
\* two placed sections whose lists hold the same schedules in different
\* orders are in the same group, whichever of them comes first
C11_PermutedListsShareGroup ==
    pc = "grouped" =>
        \A j, k \in Eligible(lectures[1]) :
            IsPermutation(lectures[1].data.turmas[j].horario,
                          lectures[1].data.turmas[k].horario)
            => /\ GroupsHolding(groupsOut, lectures[1], j) # {}
               /\ GroupsHolding(groupsOut, lectures[1], j)
                    = GroupsHolding(groupsOut, lectures[1], k)

\* C11 witness: a section listing two different schedules and a later one
\* listing them in the opposite order are members of one group
C11_Witness ==
    /\ pc = "grouped"
    /\ \E g \in 1..Len(groupsOut) :
         \E m, n \in 1..Len(groupsOut[g].classrooms) :
            LET a == groupsOut[g].classrooms[m].horario
                b == groupsOut[g].classrooms[n].horario
            IN  /\ m < n
                /\ Len(a) = 2 /\ Len(b) = 2
                /\ a[1] # a[2]
                /\ b[1] = a[2] /\ b[2] = a[1]

\* the position in lecture.data.turmas of the first member of a group
FirstMemberPosition(group, lecture) ==
    CHOOSE k \in 1..Len(lecture.data.turmas) :
        lecture.data.turmas[k] = group.classrooms[1]

\* C12: groupClassroomsBySchedule returns a partition of the eligible
\* sections: each eligible section is in exactly one group and there once,
\* no group holds an ineligible section, no group is empty, and the groups
\* are ordered by the position of their first member in the section list
C12_GroupsPartitionEligibleSections ==
    pc = "grouped" =>
        LET lecture == lectures[1]
            turmas  == lecture.data.turmas
        IN  /\ \A k \in Eligible(lecture) :
                  /\ Cardinality(GroupsHolding(groupsOut, lecture, k)) = 1
                  /\ \A g \in GroupsHolding(groupsOut, lecture, k) :
                        Cardinality({m \in 1..Len(groupsOut[g].classrooms) :
                                        groupsOut[g].classrooms[m] = turmas[k]}) = 1
            /\ \A g \in 1..Len(groupsOut) :
                  /\ Len(groupsOut[g].classrooms) > 0
                  /\ \A m \in 1..Len(groupsOut[g].classrooms) :
                        \E k \in Eligible(lecture) :
                            groupsOut[g].classrooms[m] = turmas[k]
            /\ \A g, h \in 1..Len(groupsOut) :
                  g < h => FirstMemberPosition(groupsOut[g], lecture)
                             < FirstMemberPosition(groupsOut[h], lecture)

\* C12 witness: a non-empty selection subset leaves out a section that has
\* a schedule, and the chosen sections are returned in two groups
C12_Witness ==
    /\ pc = "grouped"
    /\ Len(groupsOut) >= 2
    /\ lectures[1].selectedClassrooms # {}
    /\ \E k \in 1..Len(lectures[1].data.turmas) :
          /\ Len(lectures[1].data.turmas[k].horario) > 0
          /\ lectures[1].data.turmas[k].codigo \notin lectures[1].selectedClassrooms

\* minutes since midnight of a clock time: hours * 60 + minutes
Minutes(time) == time[1] * 60 + time[2]

\* some schedule of c1 and some schedule of c2 are on the same weekday and
\* their times overlap
SomeSchedulesClash(c1, c2) ==
    \E s1 \in Range(c1.horario), s2 \in Range(c2.horario) :
        /\ s1.dia = s2.dia
        /\ Minutes(s1.inicio) < Minutes(s2.fim)
        /\ Minutes(s1.fim) > Minutes(s2.inicio)

\* a non-empty date string that is not day/month/year in numbers
Unparseable(dateStr) ==
    /\ Len(dateStr) > 0
    /\ \/ Len(dateStr) # 3
       \/ \E i \in 1..Len(dateStr) : dateStr[i] = NaN

\* the four date strings of a pair of sections
DateStrings(pair) == {pair[1].inicio, pair[1].fim, pair[2].inicio, pair[2].fim}

\* C13: when a date string cannot be parsed, dateRangesOverlap reports that
\* the ranges overlap, so classroomsConflict on two sections with clashing
\* schedules, full date ranges and an unparseable date reports a conflict
C13_UnparseableDatesCountAsOverlap ==
    /\ (pc = "datesCompared" /\ \E d \in DateStrings(args) : Unparseable(d))
          => returned = TRUE
    /\ (/\ pc = "conflictTested"
        /\ \A d \in DateStrings(args) : Len(d) > 0
        /\ \E d \in DateStrings(args) : Unparseable(d)
        /\ SomeSchedulesClash(args[1], args[2]))
          => returned = TRUE

\* calendar order of two day/month/year dates
DateBefore(a, b) ==
    \/ a[3] < b[3]
    \/ a[3] = b[3] /\ a[2] < b[2]
    \/ a[3] = b[3] /\ a[2] = b[2] /\ a[1] < b[1]

\* both sections carry a start and an end date
BothFullRanges(c1, c2) ==
    Len(c1.inicio) > 0 /\ Len(c1.fim) > 0 /\ Len(c2.inicio) > 0 /\ Len(c2.fim) > 0

\* the half-open ranges [inicio, fim) of the two sections share a day
RangesOverlapHalfOpen(c1, c2) ==
    DateBefore(c1.inicio, c2.fim) /\ DateBefore(c2.inicio, c1.fim)

C15_SchedulesConflictIff ==
    /\ pc = "schedulesTested" =>
          returned = (/\ args[1].dia = args[2].dia
                      /\ Minutes(args[1].inicio) < Minutes(args[2].fim)
                      /\ Minutes(args[1].fim) > Minutes(args[2].inicio))
    /\ pc = "timesCompared" =>
          /\ returned[1] = returned[2]
          /\ (\/ args[1].fim = args[2].inicio
              \/ args[2].fim = args[1].inicio) => returned[1] = FALSE

\* C15 witness: on one weekday a schedule that ends at 10:30 and one that
\* starts at 10:30 do not conflict
C15_Witness ==
    /\ pc = "schedulesTested"
    /\ args[1].dia = args[2].dia
    /\ args[1].inicio = <<10, 0>> /\ args[1].fim = <<10, 30>>
    /\ args[2].inicio = <<10, 30>> /\ args[2].fim = <<11, 30>>
    /\ returned = FALSE

\* the pairs of a group of a and a group of b that have the same lecture
\* code and the same first-section code
SharedGroupPairs(a, b) ==
    {pair \in (1..Len(a.groups)) \X (1..Len(b.groups)) :
        /\ a.groups[pair[1]].lecture.data.codigo
             = b.groups[pair[2]].lecture.data.codigo
        /\ a.groups[pair[1]].classrooms[1].codigo
             = b.groups[pair[2]].classrooms[1].codigo}

Similarity(a, b) == Cardinality(SharedGroupPairs(a, b))

\* C16: findClosestCombination returns null exactly when the candidate list
\* is empty; with previous = null and a non-empty list it returns the first
\* candidate; every non-null result is an element of the candidate list
C16_NullIffEmptyElseACandidate ==
    pc = "closestFound" =>
        /\ (returned = Null) <=> (Len(args[1]) = 0)
        /\ (args[2] = Null /\ Len(args[1]) > 0) => returned = args[1][1]
        /\ returned # Null => \E c \in 1..Len(args[1]) : returned = args[1][c]

\* C16 witness: two candidates or more, no previous combination, and the
\* first candidate is returned
C16_Witness ==
    /\ pc = "closestFound"
    /\ args[2] = Null
    /\ Len(args[1]) >= 2
    /\ returned = args[1][1]

\* C17: with a non-empty list and a non-null previous, the result is the
\* candidate of lowest index among those of maximal similarity to previous;
\* hence when previous is itself one of the candidates, the result has, for
\* every lecture, the same group as previous
C17_LowestIndexOfMaximalSimilarity ==
    (pc = "closestFound" /\ Len(args[1]) > 0 /\ args[2] # Null) =>
        /\ \E c \in 1..Len(args[1]) :
              /\ returned = args[1][c]
              /\ \A d \in 1..Len(args[1]) :
                    /\ Similarity(args[2], args[1][d])
                          <= Similarity(args[2], args[1][c])
                    /\ d < c => Similarity(args[2], args[1][d])
                                  < Similarity(args[2], args[1][c])
        /\ (\E c \in 1..Len(args[1]) : args[1][c] = args[2])
              => returned.groups = args[2].groups

\* C17 witness: the candidates tie at the maximal similarity, which is not
\* zero, at two indices after a candidate of lower similarity, and the
\* first of the two is returned
C17_Witness ==
    /\ pc = "closestFound"
    /\ args[2] # Null
    /\ \E c, d \in 2..Len(args[1]) :
          /\ c < d
          /\ returned = args[1][c]
          /\ Similarity(args[2], args[1][c]) > 0
          /\ Similarity(args[2], args[1][d]) = Similarity(args[2], args[1][c])
          /\ Similarity(args[2], args[1][1]) < Similarity(args[2], args[1][c])

CacheKeys(cache) == {cache[e].trigram : e \in 1..Len(cache)}

\* C18: the trigram cache never holds more than MAX_CACHE_SIZE entries,
\* after any sequence of searchLectures and clearCache calls and under any
\* interleaving of concurrent searchLectures calls at their awaits
C18_CacheNeverExceedsCapacity == Len(trigramCache) <= MAX_CACHE_SIZE

\* C18 witness: a search has inserted an entry into a full cache while
\* another search is suspended inside its loop, and the cache is full
C18_Witness ==
    /\ cacheLog.kind = "insert"
    /\ Len(cacheLog.before) = MAX_CACHE_SIZE
    /\ Len(trigramCache) = MAX_CACHE_SIZE
    /\ \E p \in 1..MaxSearches : searches[p].pc = "awaitTrigram"

\* C19: eviction is by insertion order: when a fetched trigram is inserted
\* while the cache holds MAX_CACHE_SIZE entries, the entry inserted earliest
\* is removed and no other, also when it was hit since, and a trigram that
\* was missing goes to the end; a cache hit leaves the cache as it was,
\* contents and order
C19_EvictionByInsertionOrder ==
    /\ (cacheLog.kind = "insert" /\ Len(cacheLog.before) = MAX_CACHE_SIZE) =>
          /\ CacheDelete(trigramCache, cacheLog.trigram)
                = CacheDelete(Tail(cacheLog.before), cacheLog.trigram)
          /\ cacheLog.trigram \notin CacheKeys(cacheLog.before) =>
                trigramCache =
                    Append(Tail(cacheLog.before),
                           [trigram       |-> cacheLog.trigram,
                            trigramScores |-> StoredTrigrams[cacheLog.trigram]])
    /\ cacheLog.kind = "hit" => trigramCache = cacheLog.before

\* C19 witness: a missing trigram was inserted into a full cache whose
\* earliest entry had been hit after a later entry was inserted, and the
\* earliest entry is gone while the later one stays
C19_Witness ==
    /\ cacheLog.kind = "insert"
    /\ Len(cacheLog.before) = MAX_CACHE_SIZE
    /\ cacheLog.trigram \notin CacheKeys(cacheLog.before)
    /\ cacheLog.before[1].trigram \in cacheLog.hitBefore
    /\ cacheLog.before[2].trigram \notin cacheLog.hitBefore
    /\ ~CacheHas(trigramCache, cacheLog.before[1].trigram)
    /\ CacheHas(trigramCache, cacheLog.before[2].trigram)

\* the lectures that occur in the stored entry of some trigram of the query
LecturesOfQuery(searchTrigrams) ==
    UNION {DOMAIN StoredTrigrams[trigram] :
              trigram \in Range(searchTrigrams) \cap DOMAIN StoredTrigrams}

\* C20: searchLectures returns only lectures that occur in the stored entry
\* of a trigram of the query; a trigram without stored entry adds nothing
\* and raises no error (a call is rejected only when loading the database
\* failed); when no trigram of the query matches a lecture the result is
\* the empty list
C20_OnlyLecturesOfQueryTrigrams ==
    /\ searches[1].pc = "resolved" =>
          /\ \A k \in 1..Len(searches[1].lectures) :
                searches[1].lectures[k].codigo
                    \in LecturesOfQuery(searches[1].searchTrigrams)
          /\ LecturesOfQuery(searches[1].searchTrigrams) = {}
                => searches[1].lectures = <<>>
    /\ searches[1].pc = "rejected" => ~dbLoaded /\ ~isInitialized

\* C20 witness: a query of a trigram without stored entry and a stored one
\* has returned the lectures of the stored one
C20_Witness ==
    /\ searches[1].pc = "resolved"
    /\ \E trigram \in Range(searches[1].searchTrigrams) :
          trigram \notin DOMAIN StoredTrigrams
    /\ Len(searches[1].lectures) > 0
    /\ {searches[1].lectures[k].codigo : k \in 1..Len(searches[1].lectures)}
          = LecturesOfQuery(searches[1].searchTrigrams)

-----------------------------------------------------------------------------
(* The store and the search box *)

ActiveLectures == AppState_activePlan.lectures

\* C24: whenever addLecture, removeLecture, toggleLecture or toggleClassroom
\* changes the combination list of the active plan, the combination that is
\* active afterwards is the one findClosestCombination returns for the new
\* list and the combination that was active before
C24_ClosestCombinationKeptActive ==
    [][(/\ storeLog'.op \in {"addLecture", "removeLecture",
                             "toggleLecture", "toggleClassroom"}
        /\ CombinationsOfPlan(AppState_activePlan') # AppState_combinations)
       => ActiveCombinationOf(AppState_activePlan') =
             findClosestCombination(CombinationsOfPlan(AppState_activePlan'),
                                    AppState_activeCombination)]_vars

\* C25: whenever the active plan has combinations, its
\* activeCombinationIndex is an index of their list, so that
\* activeCombination is not null
C25_ActiveCombinationIndexValid ==
    Len(AppState_combinations) > 0 =>
        /\ AppState_activePlan.activeCombinationIndex >= 0
        /\ AppState_activePlan.activeCombinationIndex < Len(AppState_combinations)
        /\ AppState_activeCombination # Null

\* the sections of E to check: those of its explicit subset, all of them
\* when the subset is empty
SectionsToCheck(E) ==
    {E.data.turmas[k] : k \in {i \in 1..Len(E.data.turmas) :
                                  \/ E.selectedClassrooms = {}
                                  \/ E.data.turmas[i].codigo \in E.selectedClassrooms}}

\* E and L exclude each other: both have a section to check and every
\* section to check of E conflicts with every section of L
MutuallyExclusive(E, L) ==
    /\ SectionsToCheck(E) # {}
    /\ Len(L.turmas) > 0
    /\ \A e \in SectionsToCheck(E) : \A j \in 1..Len(L.turmas) :
          classroomsConflict(e, L.turmas[j])

\* C26: when addLecture adds a lecture L, or toggleLecture turns L on, L is
\* included afterwards, every other lecture that was included and excludes
\* L is left out, and the inclusion flag of no other lecture changes
C26_ExclusiveLecturesDeselected ==
    [][LET old    == ActiveLectures
           new    == ActiveLectures'
           codigo == storeLog'.arg[1]
           before == FindLecture(old, codigo)
           after  == FindLecture(new, codigo)
       IN  (\/ storeLog'.op = "addLecture" /\ before = 0
            \/ /\ storeLog'.op = "toggleLecture"
               /\ before > 0
               /\ ~old[before].selected)
           => /\ after > 0
              /\ new[after].selected
              /\ \A m \in 1..Len(old) :
                    m # before =>
                       /\ new[m].data = old[m].data
                       /\ new[m].selected =
                             (/\ old[m].selected
                              /\ ~MutuallyExclusive(old[m], new[after].data))]_vars

\* C26 witness: a lecture has been added or turned on, and a lecture with
\* an explicit subset that excludes it only through that subset is left out
C26_Witness ==
    /\ storeLog.op \in {"addLecture", "toggleLecture"}
    /\ LET n == FindLecture(ActiveLectures, storeLog.arg[1])
       IN  /\ n > 0
           /\ ActiveLectures[n].selected
           /\ \E m \in 1..Len(ActiveLectures) :
                 /\ m # n
                 /\ ~ActiveLectures[m].selected
                 /\ ActiveLectures[m].selectedClassrooms # {}
                 /\ MutuallyExclusive(ActiveLectures[m], ActiveLectures[n].data)
                 /\ ~MutuallyExclusive(
                        [ActiveLectures[m] EXCEPT !.selectedClassrooms = {}],
                        ActiveLectures[n].data)

\* C27: the store holds at least one plan and activePlanIndex is an index
\* of the plan list, whatever addPlan, removePlan, duplicatePlan,
\* renamePlan and setActivePlan were called with
C27_ActivePlanIndexValid ==
    /\ Len(plans) >= 1
    /\ activePlanIndex >= 0
    /\ activePlanIndex < Len(plans)

\* C27 witness: the last of several plans was active and has been removed
C27_Witness ==
    /\ storeLog.op = "removePlan"
    /\ nextId > 3
    /\ Len(plans) = 2
    /\ activePlanIndex = 1
    /\ plans[2].id < nextId - 1

\* C28: removePlan(i) with i other than activePlanIndex, which removes a
\* plan other than the active one or none, leaves the plan that was active
\* the active plan
C28_RemovingAnotherPlanKeepsActivePlan ==
    [][(/\ storeLog'.op = "removePlan"
        /\ storeLog'.arg[1] # activePlanIndex
        /\ \E k \in 1..Len(plans') : plans'[k].id = AppState_activePlan.id)
       => AppState_activePlan'.id = AppState_activePlan.id]_vars

\* the filters that were supplied all hold of the lecture
FilterHolds(lecture, options) ==
    /\ options.campus # "" => lecture.campus = options.campus
    /\ options.unidade # "" => lecture.unidade = options.unidade
    /\ options.departamento # "" => lecture.departamento = options.departamento
    /\ options.periodos # <<>> =>
          Range(lecture.periodos) \cap Range(options.periodos) # {}

\* the score of a lecture for a query: the sum of its weights over the
\* trigrams of the query, one term for each occurrence
RECURSIVE QueryScore(_, _)
QueryScore(searchTrigrams, code) ==
    IF Len(searchTrigrams) = 0 THEN 0
    ELSE LET trigram == Head(searchTrigrams)
             weight  == IF /\ trigram \in DOMAIN StoredTrigrams
                           /\ code \in DOMAIN StoredTrigrams[trigram]
                        THEN StoredTrigrams[trigram][code]
                        ELSE 0
         IN  weight + QueryScore(Tail(searchTrigrams), code)

\* the matched lectures that pass every supplied filter
MatchedPassing(search) ==
    {LectureTable[n] : n \in {m \in 1..Len(LectureTable) :
        /\ LectureTable[m].codigo \in LecturesOfQuery(search.searchTrigrams)
        /\ FilterHolds(LectureTable[m], search.options)}}

Adjusted(search, lecture) ==
    AdjustedScore([code \in Codes |-> QueryScore(search.searchTrigrams, code)],
                  lecture)

\* C21: searchLectures applies the supplied filters (campus, unidade and
\* departamento as equality, periodos as membership of at least one period),
\* all of them, before it truncates: no returned lecture fails a supplied
\* filter, and the result is the first `limit` lectures of the matched
\* lectures that pass, in descending order of adjusted score, so that it
\* has min(limit, number of matched lectures passing all filters) elements
C21_FiltersAppliedBeforeLimit ==
    searches[1].pc = "resolved" =>
        LET search   == searches[1]
            returns  == search.lectures
            limit    == IF "limit" \in DOMAIN search.options
                        THEN search.options.limit ELSE DefaultLimit
            passing  == MatchedPassing(search)
        IN  /\ \A k \in 1..Len(returns) :
                  /\ FilterHolds(returns[k], search.options)
                  /\ returns[k] \in passing
            /\ Len(returns) = IF limit < Cardinality(passing) THEN limit
                              ELSE Cardinality(passing)
            /\ \A j, k \in 1..Len(returns) :
                  j < k => /\ returns[j] # returns[k]
                           /\ Adjusted(search, returns[j])
                                 >= Adjusted(search, returns[k])
            /\ \A lecture \in passing \ Range(returns) :
                  \A k \in 1..Len(returns) :
                      Adjusted(search, returns[k]) >= Adjusted(search, lecture)

\* C21 witness: a search with a campus filter and limit 1 whose query
\* matches three lectures, two of them of that campus and the one of the
\* highest score of another, has returned the better of the two
C21_Witness ==
    /\ searches[1].pc = "resolved"
    /\ searches[1].options.campus = "SP"
    /\ "limit" \in DOMAIN searches[1].options
    /\ searches[1].options.limit = 1
    /\ Cardinality(LecturesOfQuery(searches[1].searchTrigrams)) = 3
    /\ Cardinality(MatchedPassing(searches[1])) = 2
    /\ Len(searches[1].lectures) = 1
    /\ \E lecture \in Range(LectureTable) \ MatchedPassing(searches[1]) :
          Adjusted(searches[1], lecture)
              > Adjusted(searches[1], searches[1].lectures[1])

\* what searchLectures returns for the query and the filters of the box
ResultsOfInput ==
    IF box.query.length < 2 THEN <<>>
    ELSE RankLectures(TRUE, LecturesOfQuery(box.query.searchTrigrams),
                      [code \in Codes |->
                          QueryScore(box.query.searchTrigrams, code)],
                      [campus       |-> box.campus,
                       unidade      |-> box.unidade,
                       departamento |-> box.departamento,
                       periodos     |-> box.periodos,
                       limit        |-> 20])

\* C30: in the search box, once all started searches have completed (and no
\* debounced search is still to start), the displayed results are those of
\* the most recent input: a search started for an earlier query that
\* completes later never overwrites the results of a later query, and never
\* repopulates the results after the input was cleared or shortened below 2
\* characters
C30_ResultsOfMostRecentInput ==
    (performs = <<>> /\ ~debounceTimer) => box.results = ResultsOfInput

\* how many trigrams of the query the lecture shares: by the places of the
\* query whose trigram the lecture has, by the distinct trigrams, and by the
\* occurrences in the lecture of the trigrams of the query
RECURSIVE SharedPlaces(_, _)
SharedPlaces(searchTrigrams, trigrams) ==
    IF Len(searchTrigrams) = 0 THEN 0
    ELSE (IF CountIn(trigrams, Head(searchTrigrams)) > 0 THEN 1 ELSE 0)
         + SharedPlaces(Tail(searchTrigrams), trigrams)

SharedDistinct(searchTrigrams, trigrams) ==
    Cardinality(Range(searchTrigrams) \cap Range(trigrams))

RECURSIVE SharedOccurrences(_, _)
SharedOccurrences(searchTrigrams, trigrams) ==
    IF Len(searchTrigrams) = 0 THEN 0
    ELSE CountIn(trigrams, Head(searchTrigrams))
         + SharedOccurrences(Tail(searchTrigrams), trigrams)

\* the other lecture shares fewer trigrams with the query than the lecture
\* does, however they are counted
SharesFewer(query, other, lecture) ==
    LET searchTrigrams == generateTrigrams(Trim(query), TRUE)
        mine   == LectureTrigrams(lecture)
        theirs == LectureTrigrams(other)
    IN  /\ SharedPlaces(searchTrigrams, theirs) < SharedPlaces(searchTrigrams, mine)
        /\ SharedDistinct(searchTrigrams, theirs)
              < SharedDistinct(searchTrigrams, mine)
        /\ SharedOccurrences(searchTrigrams, theirs)
              < SharedOccurrences(searchTrigrams, mine)

\* C22: trigram round trip: a query equal to the normalized name of a
\* lecture ranks that lecture first among the results of searchLectures
\* when no other lecture shares as many trigrams with the query
C22_ExactNameRanksFirst ==
    pc = "nameSearched" =>
        ((\A m \in 1..Len(lectures) :
              m # args[3] => SharesFewer(args[2], lectures[m], lectures[args[3]]))
            => /\ Len(returned) > 0
               /\ returned[1] = lectures[args[3]])

=============================================================================
